---- MODULE Spec2Model ----
(***************************************************************************)
(* Resource lifecycle of the LDP repository layer (lakesuperior):          *)
(* LdpFactory and Ldpr over the triple-store layout `rdfly`.              *)
(*                                                                         *)
(* Terms are sequences of strings; a triple is <<s, p, o>>.  The store is  *)
(* one set of triples per UID.  Every request runs in one store            *)
(* transaction: an operation that raises leaves the store as it was.       *)
(***************************************************************************)
EXTENDS Integers, Sequences, FiniteSets, TLC

(* ------------------------------ bounds -------------------------------- *)
\* Longest UID path (number of segments below root).
MaxDepth == 2
\* Number of committed requests in one behaviour.
MaxClock == 3
\* Number of requests in a behaviour of creates and replaces alone.
MaxCreate == 2

\* Path segments of the UIDs of the model.
Segs == {"a"}
\* Version labels a client may supply, and the labels uuid4() may mint.
UserLabels == {"v1"}
MaxUuid == 2
UuidLabels == {ToString(i) : i \in 1..MaxUuid}
Labels == UserLabels \cup UuidLabels

(* ------------------------------- terms -------------------------------- *)
None == <<>>
ROOT_UID == <<>>
VERS_CONT_LABEL == "fcr:versions"

UIDS == UNION {[1..k -> Segs] : k \in 0..MaxDepth}
VersUid(uid, label) == uid \o <<VERS_CONT_LABEL, label>>
AllUids == UIDS \cup {VersUid(u, l) : u \in UIDS, l \in Labels}

\* nsc['fcres'][uid]
Uri(uid) == <<"fcres">> \o uid
\* rdfly.uri_to_uid
uri_to_uid(uri) == Tail(uri)
IsFcres(t) == Len(t) >= 1 /\ t[1] = "fcres"

RDF_TYPE == <<"rdf:type">>
LDP_RESOURCE == <<"ldp:Resource">>
LDP_RS_TYPE == <<"ldp:RDFSource">>
LDP_NR_TYPE == <<"ldp:NonRDFSource">>
LDP_CONTAINER == <<"ldp:Container">>
LDP_BC == <<"ldp:BasicContainer">>
LDP_DC == <<"ldp:DirectContainer">>
LDP_IC == <<"ldp:IndirectContainer">>
LDP_CONTAINS == <<"ldp:contains">>
FCREPO_RESOURCE == <<"fcrepo:Resource">>
FCREPO_CONTAINER == <<"fcrepo:Container">>
FCREPO_BINARY == <<"fcrepo:Binary">>
FCREPO_PAIRTREE == <<"fcrepo:Pairtree">>
FCREPO_VERSION == <<"fcrepo:Version">>
FCREPO_UID == <<"fcrepo:uid">>
CREATED == <<"fcrepo:created">>
CREATED_BY == <<"fcrepo:createdBy">>
LAST_MODIFIED == <<"fcrepo:lastModified">>
LAST_MODIFIED_BY == <<"fcrepo:lastModifiedBy">>
HAS_PARENT == <<"fcrepo:hasParent">>
HAS_VERSION == <<"fcrepo:hasVersion">>
HAS_VERSIONS == <<"fcrepo:hasVersions">>
HAS_MIME_TYPE == <<"ebucore:hasMimeType">>
HAS_SIZE == <<"premis:hasSize">>
HAS_DIGEST == <<"premis:hasMessageDigest">>
TOMBSTONE_TYPE == <<"fcsystem:Tombstone">>
TOMBSTONE_PTR == <<"fcsystem:tombstone">>
BURIED == <<"fcsystem:buried">>
FCSYSTEM_ROOT == <<"fcsystem:root">>
MBR_RSRC_URI == <<"ldp:membershipResource">>
MBR_REL_URI == <<"ldp:hasMemberRelation">>
INS_CNT_REL_URI == <<"ldp:insertedContentRelation">>
DEF_MBR_REL_URI == <<"ldp:member">>
DEF_INS_CNT_REL_URI == <<"ldp:memberSubject">>
DEFAULT_USER == <<"BypassAdmin">>
DC_TITLE == <<"dc:title">>
EX_TYPE == <<"ex:Thing">>
EX_REL == <<"ex:hasPart">>
EX_INS == <<"ex:primaryTopic">>
EX_TARGET == <<"ex:target">>

RES_CREATED == "_create_"
RES_DELETED == "_delete_"
RES_UPDATED == "_update_"

\* thread_env.timestamp_term of the request stamped n.
TS(n) == <<"ts", ToString(n)>>

(* ------------------------- class-level tables ------------------------- *)
base_types == {FCREPO_RESOURCE, LDP_RESOURCE, LDP_RS_TYPE}
\* Variant of protected_pred: the containment predicate is left out.
protected_pred_no_contains == {CREATED, CREATED_BY}

protected_pred == {CREATED, CREATED_BY, LDP_CONTAINS}
\* Variant of smt_allow_on_create: no type is allowed on create.
smt_allow_on_create_none == {}

smt_allow_on_create == {LDP_DC, LDP_IC}
delete_preds_on_replace ==
  {HAS_MIME_TYPE, LAST_MODIFIED, LAST_MODIFIED_BY, HAS_SIZE, HAS_DIGEST}
ignore_version_preds ==
  {HAS_PARENT, HAS_VERSIONS, HAS_VERSION, HAS_DIGEST, LDP_CONTAINS}
ignore_version_types ==
  {FCREPO_BINARY, FCREPO_CONTAINER, FCREPO_PAIRTREE, FCREPO_RESOURCE,
   FCREPO_VERSION, LDP_BC, LDP_CONTAINER, LDP_DC, LDP_RESOURCE, LDP_RS_TYPE,
   LDP_NR_TYPE}

\* base_types of LdpNr, the class of the non-RDF sources.
nr_base_types == {FCREPO_BINARY, FCREPO_RESOURCE, LDP_RESOURCE, LDP_NR_TYPE}

\* base_types of the classes from_provided and new_container instantiate.
ClassBaseTypes(cls) ==
  IF cls = "LdpNr" THEN nr_base_types
  ELSE base_types \cup {FCREPO_CONTAINER, LDP_CONTAINER}
         \cup (IF cls = "LdpDc" THEN {LDP_DC} ELSE {})
         \cup (IF cls = "LdpIc" THEN {LDP_IC} ELSE {})

\* lakesuperior.dictionaries.srv_mgd_terms
srv_mgd_subjects == {FCSYSTEM_ROOT}
srv_mgd_predicates ==
  {HAS_MIME_TYPE, CREATED, CREATED_BY, HAS_PARENT, HAS_VERSION, HAS_VERSIONS,
   LAST_MODIFIED, LAST_MODIFIED_BY, HAS_DIGEST, HAS_SIZE, LDP_CONTAINS}
srv_mgd_types ==
  {FCREPO_BINARY, FCREPO_CONTAINER, FCREPO_PAIRTREE, FCREPO_RESOURCE,
   FCREPO_VERSION, LDP_BC, LDP_CONTAINER, LDP_DC, LDP_IC, LDP_NR_TYPE,
   LDP_RS_TYPE, LDP_RESOURCE}

(* --------------------------- graph helpers ---------------------------- *)
\* A pattern term None matches every term.
Match(t, pat) == \A i \in 1..3 : pat[i] = None \/ pat[i] = t[i]
\* gr[s : p] -- the objects of (s, p, *).
Values(gr, s, p) == {t[3] : t \in {x \in gr : x[1] = s /\ x[2] = p}}
\* gr.value(p) when at most one value is stored; None when there is none.
Value(gr, s, p) ==
  IF Values(gr, s, p) = {} THEN None ELSE CHOOSE v \in Values(gr, s, p) : TRUE
\* Graph.set((s, p, o)): drop every (s, p, *), then add.
GraphSet(gr, s, p, o) == {t \in gr : ~(t[1] = s /\ t[2] = p)} \cup {<<s, p, o>>}
TypesOf(gr, uri) == Values(gr, uri, RDF_TYPE)

(* --------------------------- store layout ----------------------------- *)
\* rdfly.ask_rsrc_exists: the live-type triple (uri, rdf:type, ldp:Resource).
ask_rsrc_exists(st, uid) == <<Uri(uid), RDF_TYPE, LDP_RESOURCE>> \in st[uid]

\* A buried resource: tombstone type marker or tombstone pointer.
IsTombstone(st, uid) ==
  \/ <<Uri(uid), RDF_TYPE, TOMBSTONE_TYPE>> \in st[uid]
  \/ Values(st[uid], Uri(uid), TOMBSTONE_PTR) # {}

\* rdfly.get_metadata(uid, strict): the error it raises, "" when none.
get_metadata_err(st, uid, strict) ==
  IF st[uid] = {} THEN "ResourceNotExists"
  ELSE IF strict /\ IsTombstone(st, uid) THEN "Tombstone"
  ELSE ""

\* rdfly.modify_rsrc(uid, remove_trp, add_trp)
modify_rsrc(st, uid, remove_trp, add_trp) ==
  [st EXCEPT ![uid] =
     {t \in @ : ~(\E r \in remove_trp : Match(t, r))} \cup add_trp]

\* rdfly.truncate_rsrc(uid): everything goes but the protected predicates.
truncate_rsrc(st, uid) ==
  [st EXCEPT ![uid] = {t \in @ : t[2] \in protected_pred}]

\* Objects of the contains edges stored for uid.
Children(st, uid) ==
  {uri_to_uid(o) : o \in Values(st[uid], Uri(uid), LDP_CONTAINS)} \cap UIDS

RECURSIVE Reach(_, _, _)
Reach(st, frontier, seen) ==
  IF frontier \subseteq seen THEN seen
  ELSE Reach(st, UNION {Children(st, u) : u \in frontier}, seen \cup frontier)

\* rdfly.get_descendants(uid): every resource below uid along contains edges.
get_descendants(st, uid) == Reach(st, Children(st, uid), {})

\* Triples of other resources whose object is the URI of uid.
InboundTriples(st, uid) ==
  UNION {{t \in st[u] : t[3] = Uri(uid)} : u \in UIDS \ {uid}}

\* rdfly.get_imr(uid, incl_inbound=...)
get_imr(st, uid, incl_inbound) ==
  st[uid] \cup (IF incl_inbound THEN InboundTriples(st, uid) ELSE {})

\* rdfly.forget_rsrc(uid, inbound): purge the resource and its versions,
\* and with inbound the triples of other resources pointing at it.
forget_rsrc(st, uid, inbound) ==
  [u \in AllUids |->
     IF u = uid \/ (\E l \in Labels : u = VersUid(uid, l)) THEN {}
     ELSE IF inbound THEN {t \in st[u] : t[3] # Uri(uid)}
     ELSE st[u]]

(* ------------------------------ state --------------------------------- *)
VARIABLES
  store,      \* AllUids -> set of triples: the committed store
  changelog,  \* env.app_globals.changelog
  config,     \* app configuration, read at call time
  clock,      \* number of committed requests so far
  last        \* the request that ran last, and how it ended

vars == <<store, changelog, config, clock, last>>

\* An operation in progress: the transaction's store, the changelog, and
\* the exception raised ("" while none).
Ctx(st, log) == [st |-> st, log |-> log, err |-> ""]
Raise(ctx, e) == [ctx EXCEPT !.err = e]

(* ----------------------------- LdpFactory ----------------------------- *)
\* LdpFactory.from_stored(uid, strict): the error it raises, "" when none.
from_stored_err(st, uid, strict) ==
  IF get_metadata_err(st, uid, strict) # "" THEN get_metadata_err(st, uid, strict)
  ELSE IF LDP_NR_TYPE \in TypesOf(st[uid], Uri(uid)) THEN ""
  ELSE IF LDP_RS_TYPE \in TypesOf(st[uid], Uri(uid)) THEN ""
  ELSE "ResourceNotExists"

\* LdpFactory.new_container(uid): the error it raises, "" when none.
new_container_err(st, uid) ==
  IF uid = ROOT_UID THEN "InvalidResource"
  ELSE IF ask_rsrc_exists(st, uid) THEN "ResourceExists"
  ELSE ""

\* UID strings as the factory receives them: sequences of characters, each
\* path segment one character long.  Str(uid) is the string of a UID.
RECURSIVE Str(_)
Str(uid) ==
  IF uid = ROOT_UID THEN <<"/">>
  ELSE IF Len(uid) = 1 THEN <<"/", uid[1]>>
  ELSE Str(SubSeq(uid, 1, Len(uid) - 1)) \o <<"/", uid[Len(uid)]>>

\* str.startswith('/')
startswith_slash(s) == Len(s) >= 1 /\ s[1] = "/"

\* str.rstrip('/')
RECURSIVE rstrip_slash(_)
rstrip_slash(s) ==
  IF Len(s) >= 1 /\ s[Len(s)] = "/"
  THEN rstrip_slash(SubSeq(s, 1, Len(s) - 1))
  ELSE s

\* rdfly.ask_rsrc_exists on a UID string: only the string of a UID is
\* the key of stored triples.
str_rsrc_exists(st, s) ==
  \E uid \in UIDS : Str(uid) = s /\ ask_rsrc_exists(st, uid)

\* Variant of new_container: the root UID is not refused.
new_container_root(st, s) ==
  [err |-> IF ~startswith_slash(s) THEN "InvalidResource"
           ELSE IF str_rsrc_exists(st, s) THEN "ResourceExists"
           ELSE "",
   cls |-> "Ldpc",
   imr |-> {}]

\* LdpFactory.new_container(uid) on a UID string: the error it raises (""
\* when none), the class and the payload of the instance it returns.
new_container(st, s) ==
  [err |-> IF ~startswith_slash(s) \/ s = <<"/">> THEN "InvalidResource"
           ELSE IF str_rsrc_exists(st, s) THEN "ResourceExists"
           ELSE "",
   cls |-> "Ldpc",
   imr |-> {}]

\* LdpFactory.from_stored(uid) on a UID string: the error it raises.
str_from_stored_err(st, s) ==
  IF \E uid \in UIDS : Str(uid) = s
  THEN from_stored_err(st, CHOOSE uid \in UIDS : Str(uid) = s, TRUE)
  ELSE "ResourceNotExists"

\* Variant of mint_uid: the candidate is returned whether or not a resource
\* is stored under it.
mint_uid_candidate(st, parent_uid, path, uuid) ==
  IF path # <<>> /\ startswith_slash(path)
  THEN [err |-> "ValueError", uid |-> <<>>]
  ELSE IF path = <<>> /\ parent_uid = <<"/">>
  THEN [err |-> "", uid |-> <<"/", uuid>>]
  ELSE IF ~startswith_slash(parent_uid)
  THEN [err |-> "ValueError", uid |-> <<>>]
  ELSE IF str_from_stored_err(st, parent_uid) # ""
  THEN [err |-> str_from_stored_err(st, parent_uid), uid |-> <<>>]
  ELSE IF LET uid == CHOOSE u \in UIDS : Str(u) = parent_uid
          IN LDP_CONTAINER \notin TypesOf(st[uid], Uri(uid))
  THEN [err |-> "InvalidResource", uid |-> <<>>]
  ELSE LET pfx == rstrip_slash(parent_uid) \o <<"/">>
       IN IF path # <<>>
          THEN [err |-> "", uid |-> pfx \o path]
          ELSE [err |-> "", uid |-> pfx \o <<uuid>>]

\* LdpFactory.mint_uid(parent_uid, path): the error it raises ("" when
\* none) and the UID string it returns; uuid is the value of uuid4().
mint_uid(st, parent_uid, path, uuid) ==
  IF path # <<>> /\ startswith_slash(path)
  THEN [err |-> "ValueError", uid |-> <<>>]
  ELSE IF path = <<>> /\ parent_uid = <<"/">>
  THEN [err |-> "", uid |-> <<"/", uuid>>]
  ELSE IF ~startswith_slash(parent_uid)
  THEN [err |-> "ValueError", uid |-> <<>>]
  ELSE IF str_from_stored_err(st, parent_uid) # ""
  THEN [err |-> str_from_stored_err(st, parent_uid), uid |-> <<>>]
  ELSE IF LET uid == CHOOSE u \in UIDS : Str(u) = parent_uid
          IN LDP_CONTAINER \notin TypesOf(st[uid], Uri(uid))
  THEN [err |-> "InvalidResource", uid |-> <<>>]
  ELSE LET pfx == rstrip_slash(parent_uid) \o <<"/">>
       IN IF path # <<>> /\ ~str_rsrc_exists(st, pfx \o path)
          THEN [err |-> "", uid |-> pfx \o path]
          ELSE [err |-> "", uid |-> pfx \o <<uuid>>]

(* ------------------------------- Ldpr --------------------------------- *)
\* Ldpr._enqueue_msg: the event appended to the changelog.
enqueue_msg(ctx, uid, ev_type, remove_trp, add_trp, now) ==
  LET resolves == get_metadata_err(ctx.st, uid, TRUE) = ""
      rsrc_type == IF resolves THEN TypesOf(ctx.st[uid], Uri(uid))
                   ELSE {t[3] : t \in {x \in add_trp : x[2] = RDF_TYPE}}
      actors == IF resolves THEN Values(ctx.st[uid], Uri(uid), CREATED_BY)
                ELSE {t[3] : t \in {x \in add_trp : x[2] = CREATED_BY}}
      ev == [uid |-> uid, remove |-> remove_trp, add |-> add_trp,
             ev_type |-> ev_type, timestamp |-> now,
             rsrc_type |-> rsrc_type, actor |-> actors]
  IN [ctx EXCEPT !.log = Append(@, ev)]

\* Variant of modify: the suppressed sentinel is not looked at.
modify_always(ctx, uid, ev_type, remove_trp, add_trp, now) ==
  IF ctx.err # "" THEN ctx
  ELSE LET ctx1 == [ctx EXCEPT !.st = modify_rsrc(@, uid, remove_trp, add_trp)]
       IN IF config.messaging
          THEN enqueue_msg(ctx1, uid, ev_type, remove_trp, add_trp, now)
          ELSE ctx1

\* Ldpr.modify(ev_type, remove_trp, add_trp) on the resource uid.
\* ev_type "" is the suppressed sentinel (None).
modify(ctx, uid, ev_type, remove_trp, add_trp, now) ==
  IF ctx.err # "" THEN ctx
  ELSE LET ctx1 == [ctx EXCEPT !.st = modify_rsrc(@, uid, remove_trp, add_trp)]
       IN IF ev_type # "" /\ config.messaging
          THEN enqueue_msg(ctx1, uid, ev_type, remove_trp, add_trp, now)
          ELSE ctx1

\* Variant of add_srv_mgd_triples: created and createdBy are stamped anew on
\* a replace as well.
add_srv_mgd_triples_restamp(uid, cls, provided_imr, create, cr, cb, now) ==
  LET uri == Uri(uid)
      g1 == provided_imr \cup {<<uri, RDF_TYPE, t>> : t \in ClassBaseTypes(cls)}
      g2 == GraphSet(g1, uri, CREATED, TS(now))
      g3 == GraphSet(g2, uri, CREATED_BY, DEFAULT_USER)
      g4 == GraphSet(g3, uri, LAST_MODIFIED, TS(now))
  IN GraphSet(g4, uri, LAST_MODIFIED_BY, DEFAULT_USER)

\* Ldpr._add_srv_mgd_triples(create) on provided_imr; `cr` and `cb` are the
\* values metadata.value() returns for created and createdBy on a replace.
add_srv_mgd_triples(uid, cls, provided_imr, create, cr, cb, now) ==
  LET uri == Uri(uid)
      g1 == provided_imr \cup {<<uri, RDF_TYPE, t>> : t \in ClassBaseTypes(cls)}
      g2 == GraphSet(g1, uri, CREATED, IF create THEN TS(now) ELSE cr)
      g3 == GraphSet(g2, uri, CREATED_BY, IF create THEN DEFAULT_USER ELSE cb)
      g4 == GraphSet(g3, uri, LAST_MODIFIED, TS(now))
  IN GraphSet(g4, uri, LAST_MODIFIED_BY, DEFAULT_USER)

\* Objects of provided_imr that _check_ref_int finds dangling.
RefIntOffenders(st, uid, provided_imr) ==
  {o \in {t[3] : t \in provided_imr} :
     /\ IsFcres(o)
     /\ o # Uri(uid)
     /\ uri_to_uid(o) \in AllUids
     /\ ~ask_rsrc_exists(st, uri_to_uid(o))}

\* Variant of check_ref_int: the dangling links are left in the payload.
check_ref_int_keep(st, uid, provided_imr) == provided_imr

\* Ldpr._check_ref_int(config): the sanitized provided_imr.
check_ref_int(st, uid, provided_imr) ==
  {t \in provided_imr : t[3] \notin RefIntOffenders(st, uid, provided_imr)}

\* Variant of add_ldp_dc_ic_rel: the membership triple always goes to the
\* parent container, whatever its membershipResource.
add_ldp_dc_ic_rel_to_parent(ctx, uid, provided_imr, cont_uid, now) ==
  IF ctx.err # "" THEN ctx
  ELSE IF get_metadata_err(ctx.st, cont_uid, TRUE) # ""
       THEN Raise(ctx, get_metadata_err(ctx.st, cont_uid, TRUE))
  ELSE LET curi == Uri(cont_uid)
           ldp_types == TypesOf(ctx.st[cont_uid], curi)
           mp == Value(ctx.st[cont_uid], curi, MBR_REL_URI)
           p == IF mp # None THEN mp ELSE DEF_MBR_REL_URI
       IN IF LDP_DC \in ldp_types \/ LDP_IC \in ldp_types
          THEN modify(ctx, cont_uid, RES_UPDATED, {}, {<<curi, p, Uri(uid)>>}, now)
          ELSE ctx

\* Ldpr._add_ldp_dc_ic_rel(cont_rsrc): writes the membership triple of a
\* direct or indirect parent container; returns the hasParent triple.
add_ldp_dc_ic_rel(ctx, uid, provided_imr, cont_uid, now) ==
  IF ctx.err # "" THEN ctx
  ELSE IF get_metadata_err(ctx.st, cont_uid, TRUE) # ""
       THEN Raise(ctx, get_metadata_err(ctx.st, cont_uid, TRUE))
  ELSE LET meta == ctx.st[cont_uid]
           curi == Uri(cont_uid)
           ldp_types == TypesOf(meta, curi)
           mr == Value(meta, curi, MBR_RSRC_URI)
           mp == Value(meta, curi, MBR_REL_URI)
           s == IF mr # None THEN mr ELSE curi
           p == IF mp # None THEN mp ELSE DEF_MBR_REL_URI
           cont_rel_uri == Value(meta, curi, INS_CNT_REL_URI)
           pv == Value(provided_imr, Uri(uid), cont_rel_uri)
           o == IF LDP_IC \in ldp_types
                THEN (IF pv # None THEN pv ELSE DEF_INS_CNT_REL_URI)
                ELSE Uri(uid)
       IN IF LDP_DC \in ldp_types \/ LDP_IC \in ldp_types
          THEN IF ~IsFcres(s) \/ uri_to_uid(s) \notin AllUids
               THEN Raise(ctx, "ResourceNotExists")
               ELSE IF from_stored_err(ctx.st, uri_to_uid(s), TRUE) # ""
               THEN Raise(ctx, from_stored_err(ctx.st, uri_to_uid(s), TRUE))
               ELSE modify(ctx, uri_to_uid(s), RES_UPDATED, {}, {<<s, p, o>>}, now)
          ELSE ctx

RECURSIVE create_or_replace(_, _, _, _, _, _, _, _)

\* Variant of contains_edge: the edge is written from the child to the parent.
contains_edge_reversed(parent_uid, uid) ==
  {<<Uri(uid), LDP_CONTAINS, Uri(parent_uid)>>}

\* The add_gr of _containment_rel: the contains edge from parent to child.
contains_edge(parent_uid, uid) ==
  {<<Uri(parent_uid), LDP_CONTAINS, Uri(uid)>>}

\* Ldpr._containment_rel(create): resolves (or synthesizes) the parent,
\* adds the contains edge on a create, then the membership triple.
containment_rel(ctx, uid, provided_imr, create, now) ==
  LET nested == Len(uid) >= 2
      cnd_parent_uid == IF nested THEN SubSeq(uid, 1, Len(uid) - 1) ELSE ROOT_UID
      ctx1 ==
        IF ~nested THEN ctx
        ELSE IF ask_rsrc_exists(ctx.st, cnd_parent_uid)
        THEN (IF from_stored_err(ctx.st, cnd_parent_uid, TRUE) # ""
              THEN Raise(ctx, from_stored_err(ctx.st, cnd_parent_uid, TRUE))
              ELSE ctx)
        ELSE IF new_container_err(ctx.st, cnd_parent_uid) # ""
        THEN Raise(ctx, new_container_err(ctx.st, cnd_parent_uid))
        ELSE create_or_replace(ctx, cnd_parent_uid, "Ldpc", {}, FALSE,
                               None, None, now)
      parent_uid == cnd_parent_uid
      ctx2 ==
        IF ctx1.err # "" THEN ctx1
        ELSE IF from_stored_err(ctx1.st, parent_uid, TRUE) # ""
        THEN Raise(ctx1, from_stored_err(ctx1.st, parent_uid, TRUE))
        ELSE IF create
        THEN modify(ctx1, parent_uid, RES_UPDATED, {},
                    contains_edge(parent_uid, uid), now)
        ELSE ctx1
  IN add_ldp_dc_ic_rel(ctx2, uid, provided_imr, parent_uid, now)

\* Variant of create_or_replace: the resource's own triples are written
\* before the containment is resolved.
create_or_replace_own_first(ctx, uid, cls, provided_imr, create_only, cr, cb, now) ==
  IF ctx.err # "" THEN ctx
  ELSE
  LET uri == Uri(uid)
      create == create_only \/ ~ask_rsrc_exists(ctx.st, uid)
      ev_type == IF create THEN RES_CREATED ELSE RES_UPDATED
      meta_err == IF create THEN "" ELSE get_metadata_err(ctx.st, uid, TRUE)
      imr1 == add_srv_mgd_triples(uid, cls, provided_imr, create, cr, cb, now)
      ref_int == config.ref_int
      ref_err == ref_int = "strict" /\ RefIntOffenders(ctx.st, uid, imr1) # {}
      imr2 == IF ref_int = "off" THEN imr1 ELSE check_ref_int(ctx.st, uid, imr1)
      ctx1 == IF create THEN ctx ELSE [ctx EXCEPT !.st = truncate_rsrc(@, uid)]
      remove_trp == {<<uri, pred, None>> : pred \in delete_preds_on_replace}
      add_trp == imr2 \cup {<<uri, HAS_PARENT, Uri(
                   IF Len(uid) >= 2 THEN SubSeq(uid, 1, Len(uid) - 1)
                   ELSE ROOT_UID)>>}
      ctx2 == modify(ctx1, uid, ev_type, remove_trp, add_trp, now)
  IN IF meta_err # "" THEN Raise(ctx, meta_err)
     ELSE IF ref_err THEN Raise(ctx, "RefIntViolation")
     ELSE containment_rel(ctx2, uid, imr2, create, now)

\* Ldpr.create_or_replace(create_only) on an instance of class cls holding
\* provided_imr.
create_or_replace(ctx, uid, cls, provided_imr, create_only, cr, cb, now) ==
  IF ctx.err # "" THEN ctx
  ELSE
  LET uri == Uri(uid)
      create == create_only \/ ~ask_rsrc_exists(ctx.st, uid)
      ev_type == IF create THEN RES_CREATED ELSE RES_UPDATED
      meta_err == IF create THEN "" ELSE get_metadata_err(ctx.st, uid, TRUE)
      imr1 == add_srv_mgd_triples(uid, cls, provided_imr, create, cr, cb, now)
      ref_int == config.ref_int
      ref_err == ref_int = "strict" /\ RefIntOffenders(ctx.st, uid, imr1) # {}
      imr2 == IF ref_int = "off" THEN imr1 ELSE check_ref_int(ctx.st, uid, imr1)
      ctx1 == IF create THEN ctx ELSE [ctx EXCEPT !.st = truncate_rsrc(@, uid)]
      remove_trp == {<<uri, pred, None>> : pred \in delete_preds_on_replace}
      ctx2 == containment_rel(ctx1, uid, imr2, create, now)
      add_trp == imr2 \cup {<<uri, HAS_PARENT, Uri(
                   IF Len(uid) >= 2 THEN SubSeq(uid, 1, Len(uid) - 1)
                   ELSE ROOT_UID)>>}
  IN IF meta_err # "" THEN Raise(ctx, meta_err)
     ELSE IF ref_err THEN Raise(ctx, "RefIntViolation")
     ELSE modify(ctx2, uid, ev_type, remove_trp, add_trp, now)

\* Variant of check_mgd_terms: the subject and predicate axes alone are
\* checked.
check_mgd_terms_no_types(trp, handling, is_stored) ==
  LET off_s == {t[1] : t \in trp} \cap srv_mgd_subjects
      g1 == {t \in trp : t[1] \notin off_s}
      off_p == {t[2] : t \in g1} \cap srv_mgd_predicates
  IN IF handling = "strict" /\ off_s # {}
       THEN [err |-> "ServerManagedTerm:s", off |-> off_s, gr |-> trp]
     ELSE IF handling = "strict" /\ off_p # {}
       THEN [err |-> "ServerManagedTerm:p", off |-> off_p, gr |-> trp]
     ELSE [err |-> "", off |-> {}, gr |-> {t \in g1 : t[2] \notin off_p}]

\* Ldpr.check_mgd_terms(trp) of an instance with the given handling:
\* the error raised ("" when none) with the terms it names, and the graph
\* as the call leaves it.
check_mgd_terms(trp, handling, is_stored) ==
  LET off_s == {t[1] : t \in trp} \cap srv_mgd_subjects
      g1 == {t \in trp : t[1] \notin off_s}
      off_p == {t[2] : t \in g1} \cap srv_mgd_predicates
      g2 == {t \in g1 : t[2] \notin off_p}
      off_t0 == {t[3] : t \in {x \in g2 : x[2] = RDF_TYPE}} \cap srv_mgd_types
      off_t == IF is_stored THEN off_t0 ELSE off_t0 \ smt_allow_on_create
      g3 == {t \in g2 : ~(t[2] = RDF_TYPE /\ t[3] \in off_t)}
  IN IF handling = "strict" /\ off_s # {}
       THEN [err |-> "ServerManagedTerm:s", off |-> off_s, gr |-> trp]
     ELSE IF handling = "strict" /\ off_p # {}
       THEN [err |-> "ServerManagedTerm:p", off |-> off_p, gr |-> trp]
     ELSE IF handling = "strict" /\ off_t # {}
       THEN [err |-> "ServerManagedTerm:t", off |-> off_t, gr |-> trp]
     ELSE [err |-> "", off |-> {}, gr |-> g3]

\* Variant of sparql_delta: the add graph is the whole updated graph.
sparql_delta_whole(pre_gr, delete, insert, handling, is_stored) ==
  LET post_gr == (pre_gr \ delete) \cup insert
      rem == check_mgd_terms(pre_gr \ post_gr, handling, is_stored)
      add == check_mgd_terms(post_gr, handling, is_stored)
  IN IF rem.err # ""
       THEN [err |-> rem.err, post |-> post_gr, remove |-> {}, add |-> {}]
     ELSE IF add.err # ""
       THEN [err |-> add.err, post |-> post_gr, remove |-> {}, add |-> {}]
     ELSE [err |-> "", post |-> post_gr, remove |-> rem.gr, add |-> add.gr]

\* Ldpr.sparql_delta(qry_str) of an instance with the given handling whose
\* imr is pre_gr.  The update is one SPARQL DELETE/INSERT: post_gr.update
\* takes the delete triples out of the copy, then puts the insert triples in.
\* The error raised ("" when none), the updated copy and the two graphs
\* returned.
sparql_delta(pre_gr, delete, insert, handling, is_stored) ==
  LET post_gr == (pre_gr \ delete) \cup insert
      rem == check_mgd_terms(pre_gr \ post_gr, handling, is_stored)
      add == check_mgd_terms(post_gr \ pre_gr, handling, is_stored)
  IN IF rem.err # ""
       THEN [err |-> rem.err, post |-> post_gr, remove |-> {}, add |-> {}]
     ELSE IF add.err # ""
       THEN [err |-> add.err, post |-> post_gr, remove |-> {}, add |-> {}]
     ELSE [err |-> "", post |-> post_gr, remove |-> rem.gr, add |-> add.gr]

\* Variant of from_provided: the instance is taken not to be stored, so
\* its stored types are not read.
from_provided_unstored(st, uid, stream, graph, handling) ==
  LET types == TypesOf(graph, Uri(uid))
      cls == IF stream THEN "LdpNr"
             ELSE IF LDP_IC \in types THEN "LdpIc"
             ELSE IF LDP_DC \in types THEN "LdpDc"
             ELSE "Ldpc"
      chk == check_mgd_terms(graph, handling, FALSE)
  IN IF ~stream /\ handling # "none"
       THEN [err |-> chk.err, cls |-> cls, imr |-> chk.gr]
     ELSE [err |-> "", cls |-> cls, imr |-> graph]

\* LdpFactory.from_provided(uid, stream=..., graph=..., handling=...);
\* stream tells whether a binary stream is given.  The error raised, the
\* class chosen and the instance's payload.
from_provided(st, uid, stream, graph, handling) ==
  LET types == TypesOf(graph, Uri(uid))
      cls == IF stream THEN "LdpNr"
             ELSE IF LDP_IC \in types THEN "LdpIc"
             ELSE IF LDP_DC \in types THEN "LdpDc"
             ELSE "Ldpc"
      other == IF stream THEN LDP_RS_TYPE ELSE LDP_NR_TYPE
      is_stored == ask_rsrc_exists(st, uid)
      chk == check_mgd_terms(graph, handling, is_stored)
  IN IF is_stored /\ get_metadata_err(st, uid, TRUE) # ""
       THEN [err |-> get_metadata_err(st, uid, TRUE), cls |-> cls, imr |-> graph]
     ELSE IF is_stored /\ other \in TypesOf(st[uid], Uri(uid))
       THEN [err |-> "IncompatibleLdpType", cls |-> cls, imr |-> graph]
     ELSE IF ~stream /\ handling # "none"
       THEN [err |-> chk.err, cls |-> cls, imr |-> chk.gr]
     ELSE [err |-> "", cls |-> cls, imr |-> graph]

\* self.version_uids: the labels of the versions the resource links to.
version_uids(st, uid) ==
  {l \in Labels : <<Uri(uid), HAS_VERSION, Uri(VersUid(uid, l))>> \in st[uid]}

\* Variant of replace_term_domain: the term is returned as it is.
replace_term_domain_keep(term, search, replace) == term

\* util.toolbox.replace_term_domain(term, search, replace)
replace_term_domain(term, search, replace) ==
  IF Len(term) >= Len(search) /\ SubSeq(term, 1, Len(search)) = search
  THEN replace \o SubSeq(term, Len(search) + 1, Len(term))
  ELSE term

\* Variant of create_version: the snapshot is written through modify, as an
\* update of the version resource.
create_version_notified(ctx, uid, uri, label, uuid, now) ==
  IF ctx.err # "" THEN ctx
  ELSE IF get_metadata_err(ctx.st, uid, TRUE) # ""
       THEN Raise(ctx, get_metadata_err(ctx.st, uid, TRUE))
  ELSE
  LET lbl == IF label = None \/ label[1] \in version_uids(ctx.st, uid)
             THEN uuid ELSE label[1]
      ver_uid == VersUid(uid, lbl)
      ver_uri == Uri(ver_uid)
      kept == {t \in get_imr(ctx.st, uid, FALSE) :
                 ~((t[2] = RDF_TYPE /\ t[3] \in ignore_version_types)
                   \/ t[2] \in ignore_version_preds)}
      ver_add_gr == {<<ver_uri, RDF_TYPE, FCREPO_VERSION>>}
                      \cup {<<replace_term_domain(t[1], uri, ver_uri), t[2], t[3]>>
                              : t \in kept}
      ctx1 == modify(ctx, ver_uid, RES_UPDATED, {}, ver_add_gr, now)
      rsrc_add_gr == {<<uri, HAS_VERSION, ver_uri>>,
                      <<uri, HAS_VERSIONS, Uri(uid \o <<VERS_CONT_LABEL>>)>>}
  IN modify(ctx1, uid, RES_UPDATED, {}, rsrc_add_gr, now)

\* Ldpr.create_version(ver_uid) on an instance whose uid and uri are given;
\* label is None when the caller passes none, uuid is what uuid4() returns.
create_version(ctx, uid, uri, label, uuid, now) ==
  IF ctx.err # "" THEN ctx
  ELSE IF get_metadata_err(ctx.st, uid, TRUE) # ""
       THEN Raise(ctx, get_metadata_err(ctx.st, uid, TRUE))
  ELSE
  LET lbl == IF label = None \/ label[1] \in version_uids(ctx.st, uid)
             THEN uuid ELSE label[1]
      ver_uid == VersUid(uid, lbl)
      ver_uri == Uri(ver_uid)
      vers_uri == Uri(uid \o <<VERS_CONT_LABEL>>)
      kept == {t \in get_imr(ctx.st, uid, FALSE) :
                 ~((t[2] = RDF_TYPE /\ t[3] \in ignore_version_types)
                   \/ t[2] \in ignore_version_preds)}
      ver_add_gr == {<<ver_uri, RDF_TYPE, FCREPO_VERSION>>}
                      \cup {<<replace_term_domain(t[1], uri, ver_uri), t[2], t[3]>>
                              : t \in kept}
      ctx1 == [ctx EXCEPT !.st = modify_rsrc(@, ver_uid, {}, ver_add_gr)]
      rsrc_add_gr == {<<uri, HAS_VERSION, ver_uri>>,
                      <<uri, HAS_VERSIONS, vers_uri>>}
  IN modify(ctx1, uid, RES_UPDATED, {}, rsrc_add_gr, now)

\* Ldpr._is_trp_managed(t)
is_trp_managed(t) ==
  t[2] \in srv_mgd_predicates \/ (t[2] = RDF_TYPE /\ t[3] \in srv_mgd_types)

\* Ldpr.revert_to_version(ver_uid, backup) on the instance from_stored
\* returns; rdfly.get_imr raises when the version holds no triple.
revert_to_version(ctx, uid, label, backup, uuid, cr, cb, now) ==
  IF ctx.err # "" THEN ctx
  ELSE
  LET uri == Uri(uid)
      cls == IF LDP_NR_TYPE \in TypesOf(ctx.st[uid], uri) THEN "LdpNr"
             ELSE "LdpRs"
      ctx1 == IF backup THEN create_version(ctx, uid, uri, None, uuid, now)
              ELSE ctx
      ver_gr == ctx1.st[VersUid(uid, label)]
      provided_imr == {<<uri, t[2], t[3]>> : t \in {x \in ver_gr : ~is_trp_managed(x)}}
  IN IF ctx1.err # "" THEN ctx1
     ELSE IF ver_gr = {} THEN Raise(ctx1, "ResourceNotExists")
     ELSE create_or_replace(ctx1, uid, cls, provided_imr, FALSE, cr, cb, now)

\* bury's loop over the inbound referrers: snapshot each, strip its links.
\* Returns the context and the remove_trp the loop leaves behind.
RECURSIVE cut_inbound(_, _, _, _, _, _)
cut_inbound(ctx, uid, refs, remove_trp, uuid, now) ==
  IF ctx.err # "" \/ refs = <<>> THEN [ctx |-> ctx, remove_trp |-> remove_trp]
  ELSE LET ib_rsrc_uri == Head(refs)
           rm == {<<ib_rsrc_uri, None, Uri(uid)>>}
           ib_uid == uri_to_uid(ib_rsrc_uri)
           ctx1 == create_version(ctx, ib_uid, Uri(ib_rsrc_uri), None, uuid, now)
           ctx2 == modify(ctx1, ib_uid, RES_UPDATED, rm, {}, now)
       IN cut_inbound(ctx2, uid, Tail(refs), rm, uuid, now)

\* Ldpr.bury(inbound, tstone_pointer); ord is the order in which the store
\* enumerates resources, incl_inbound whether the instance's IMR was
\* requested with the inbound triples.
\* stack holds the resources whose bury is in progress: re-entering one of
\* them never returns (the interpreter raises RecursionError).
RECURSIVE bury(_, _, _, _, _, _, _, _, _)
RECURSIVE bury_descendants(_, _, _, _, _, _, _, _)
bury_descendants(ctx, uid, descs, inbound, ord, uuid, now, stack) ==
  IF ctx.err # "" \/ descs = <<>> THEN ctx
  ELSE LET d == Head(descs)
           skip == from_stored_err(ctx.st, d, TRUE) # ""
           ctx1 == IF skip THEN ctx
                   ELSE bury(ctx, d, inbound, Uri(uid), FALSE, ord, uuid, now,
                             stack)
       IN bury_descendants(ctx1, uid, Tail(descs), inbound, ord, uuid, now,
                           stack)

bury(ctx, uid, inbound, tstone_pointer, incl_inbound, ord, uuid, now, stack) ==
  IF ctx.err # "" THEN ctx
  ELSE IF uid \in stack THEN Raise(ctx, "RecursionError")
  ELSE
  LET uri == Uri(uid)
      remove_trp0 == {<<FCREPO_UID, RDF_TYPE, LDP_RESOURCE>>}
      add_trp == IF tstone_pointer # None
                 THEN {<<uri, TOMBSTONE_PTR, tstone_pointer>>}
                 ELSE {<<uri, RDF_TYPE, TOMBSTONE_TYPE>>, <<uri, BURIED, TS(now)>>}
      dset == get_descendants(ctx.st, uid)
      descs == SelectSeq(ord, LAMBDA d : d \in dset)
      ctx1 == bury_descendants(ctx, uid, descs, inbound, ord, uuid, now,
                               stack \cup {uid})
      imr == get_imr(ctx1.st, uid, incl_inbound)
      refset == {t[1] : t \in {x \in imr : x[3] = uri}}
      refs == SelectSeq(ord, LAMBDA d : Uri(d) \in refset)
      cut == IF inbound
             THEN cut_inbound(ctx1, uid, [i \in 1..Len(refs) |-> Uri(refs[i])],
                              remove_trp0, uuid, now)
             ELSE [ctx |-> ctx1, remove_trp |-> remove_trp0]
  IN modify(cut.ctx, uid, RES_DELETED, cut.remove_trp, add_trp, now)

\* Variant of forget: the purge is not delegated to the store.
forget_nothing(ctx, uid, inbound) == ctx

\* Ldpr.forget(uid, inbound)
forget(ctx, uid, inbound) ==
  [ctx EXCEPT !.st = forget_rsrc(@, uid, inbound)]

\* Variant of tombstone_trp: the tombstone type marker is not removed.
tombstone_trp_no_marker(uri) ==
  {<<uri, TOMBSTONE_PTR, None>>, <<uri, BURIED, None>>}

\* The remove_trp of resurrect: the patterns of the tombstone triples.
tombstone_trp(uri) ==
  {<<uri, RDF_TYPE, TOMBSTONE_TYPE>>,
   <<uri, TOMBSTONE_PTR, None>>,
   <<uri, BURIED, None>>}

\* Variant of resurrect: the descendants are left buried.
resurrect_alone(ctx, uid, ord, now, stack) ==
  IF ctx.err # "" THEN ctx
  ELSE modify(ctx, uid, RES_CREATED, tombstone_trp(Uri(uid)),
              {<<Uri(uid), RDF_TYPE, LDP_RESOURCE>>}, now)

\* Ldpr.resurrect()
RECURSIVE resurrect(_, _, _, _, _)
RECURSIVE resurrect_descendants(_, _, _, _, _)
resurrect_descendants(ctx, descs, ord, now, stack) ==
  IF ctx.err # "" \/ descs = <<>> THEN ctx
  ELSE LET d == Head(descs)
       IN IF from_stored_err(ctx.st, d, FALSE) # ""
          THEN Raise(ctx, from_stored_err(ctx.st, d, FALSE))
          ELSE resurrect_descendants(resurrect(ctx, d, ord, now, stack),
                                     Tail(descs), ord, now, stack)

resurrect(ctx, uid, ord, now, stack) ==
  IF ctx.err # "" THEN ctx
  ELSE IF uid \in stack THEN Raise(ctx, "RecursionError")
  ELSE
  LET uri == Uri(uid)
      remove_trp == tombstone_trp(uri)
      add_trp == {<<uri, RDF_TYPE, LDP_RESOURCE>>}
      ctx1 == modify(ctx, uid, RES_CREATED, remove_trp, add_trp, now)
      dset == get_descendants(ctx1.st, uid)
      descs == SelectSeq(ord, LAMBDA d : d \in dset)
  IN resurrect_descendants(ctx1, descs, ord, now, stack \cup {uid})

(* -------------------- legacy Ldpr (model/ldpr.py) --------------------- *)
\* The legacy layer keeps the repository in one dataset, a set of triples,
\* and wraps its write operations in the atomic decorator.  A legacy request
\* runs in a context: st is the dataset as the open transaction sees it,
\* durable the dataset as of the last commit, log is request.changelog and
\* sent the events handed to _send_event_msg, in order, each with the number
\* of commits made when it was handed over.  all (every event enqueued) and
\* commits (the commits made) are kept for the record of the request.
LegacyCtx(ds) ==
  [st |-> ds, durable |-> ds, log |-> <<>>, all |-> <<>>, sent |-> <<>>,
   commits |-> 0, err |-> ""]

ROOT_NODE_URN == FCSYSTEM_ROOT
HAS_VERSION_LABEL == <<"fcrepo:hasVersionLabel">>
\* self.urn of the instance Ldpr(uuid); the uuid of the root is empty.
urn(uuid) == IF uuid = ROOT_UID THEN ROOT_NODE_URN ELSE Uri(uuid)

\* rdfly.modify_dataset(remove_trp, add_trp)
modify_dataset(ds, remove_trp, add_trp) ==
  {t \in ds : ~(\E r \in remove_trp : Match(t, r))} \cup add_trp
\* rdfly.extract_imr(urn): the triples of the resource.
extract_imr(ds, u) == {t \in ds : t[1] = u}
\* rdfly.get_version(urn, ver_uid): the version graph, without the label
\* the metadata graph keeps.
get_version(ds, uuid, ver_uid) ==
  {t \in extract_imr(ds, Uri(VersUid(uuid, ver_uid))) : t[2] # HAS_VERSION_LABEL}

\* The wrapper of atomic, before fn runs: request.changelog = [].
atomic_enter(c) == [c EXCEPT !.log = <<>>]

\* Variant of atomic_exit: the events are handed over whatever the outcome,
\* before the store is committed or rolled back.
atomic_exit_finally(c) ==
  LET out == [i \in 1..Len(c.log) |-> [ev |-> c.log[i], commits |-> c.commits]]
  IN IF c.err # ""
     THEN [c EXCEPT !.st = c.durable, !.sent = @ \o out]
     ELSE [c EXCEPT !.durable = c.st, !.commits = @ + 1, !.sent = @ \o out]

\* The wrapper of atomic, after fn has run: on an exception the store is
\* rolled back and the exception raised again; otherwise the store is
\* committed and every event of request.changelog is handed to
\* _send_event_msg.
atomic_exit(c) ==
  IF c.err # ""
  THEN [c EXCEPT !.st = c.durable]
  ELSE [c EXCEPT !.durable = c.st, !.commits = @ + 1,
                 !.sent = @ \o [i \in 1..Len(c.log) |->
                                  [ev |-> c.log[i], commits |-> c.commits + 1]]]

\* Ldpr._modify_rsrc(ev_type, remove_trp, add_trp, notify) of the instance
\* with URN u; both deltas are graphs.
legacy_modify_rsrc(c, u, ev_type, remove_trp, add_trp, notify, now) ==
  IF c.err # "" THEN c
  ELSE LET merge_gr == remove_trp \cup add_trp
           ev == [remove |-> remove_trp, add |-> add_trp, ev_type |-> ev_type,
                  time |-> now, type |-> Values(merge_gr, u, RDF_TYPE),
                  actor |-> Values(merge_gr, u, CREATED_BY),
                  epoch |-> c.commits]
           c1 == [c EXCEPT !.st = modify_dataset(@, remove_trp, add_trp)]
       IN IF notify /\ config.messaging
          THEN [c1 EXCEPT !.log = Append(@, ev), !.all = Append(@, ev)]
          ELSE c1

\* Ldpr._add_srv_mgd_triples(create) of a container instance; the digest
\* is a term computed from the payload.
legacy_add_srv_mgd_triples(u, provided_imr, create, now) ==
  LET g1 == provided_imr \cup {<<u, RDF_TYPE, t>> : t \in ClassBaseTypes("Ldpc")}
      g2 == GraphSet(g1, u, HAS_DIGEST,
                     <<"urn:sha1", ToString(Cardinality(g1))>>)
      g3 == IF create
            THEN GraphSet(GraphSet(g2, u, CREATED, TS(now)),
                          u, CREATED_BY, DEFAULT_USER)
            ELSE g2
  IN GraphSet(GraphSet(g3, u, LAST_MODIFIED, TS(now)),
              u, LAST_MODIFIED_BY, DEFAULT_USER)

\* Ldpr._add_ldp_dc_ic_rel(cont_uri) of the instance Ldpr(uuid), built
\* without a handling.  provided_imr.value(...) is None when the payload
\* has no such triple, and None has no identifier.
legacy_add_ldp_dc_ic_rel(c, uuid, provided_imr, cont_uri, now) ==
  IF c.err # "" THEN c
  ELSE
  LET cont_imr == extract_imr(c.st, cont_uri)
      types == TypesOf(cont_imr, cont_uri)
      cont_p == {t[2] : t \in cont_imr}
      s == Value(cont_imr, cont_uri, MBR_RSRC_URI)
      p == Value(cont_imr, cont_uri, MBR_REL_URI)
      cont_rel_uri == Value(cont_imr, cont_uri, INS_CNT_REL_URI)
      target_uri == Value(provided_imr, urn(uuid), cont_rel_uri)
  IN IF LDP_NR_TYPE \notin types /\ LDP_RS_TYPE \notin types
       THEN Raise(c, "ResourceNotExists")
     ELSE IF ~(MBR_RSRC_URI \in cont_p /\ MBR_REL_URI \in cont_p) THEN c
     ELSE IF LDP_DC \in types
       THEN legacy_modify_rsrc(c, urn(uuid), RES_UPDATED, {},
                               {<<s, p, urn(uuid)>>}, TRUE, now)
     ELSE IF LDP_IC \in types /\ INS_CNT_REL_URI \in cont_p
       THEN (IF target_uri = None THEN Raise(c, "AttributeError")
             ELSE legacy_modify_rsrc(c, urn(uuid), RES_UPDATED, {},
                                     {<<s, p, target_uri>>}, TRUE, now))
     ELSE c

\* Ldpr._set_containment_rel() for the root and for the resources right
\* under it (no '/' in the uuid).
set_containment_rel(c, uuid, provided_imr, now) ==
  IF c.err # "" \/ urn(uuid) = ROOT_NODE_URN THEN c
  ELSE LET parent_uri == ROOT_NODE_URN
           add_gr == {<<parent_uri, LDP_CONTAINS, urn(uuid)>>}
           c1 == legacy_modify_rsrc(c, parent_uri, RES_UPDATED, {}, add_gr,
                                    TRUE, now)
       IN legacy_add_ldp_dc_ic_rel(c1, uuid, provided_imr, parent_uri, now)

\* Ldpr._create_or_replace_rsrc(create_only), with _create_rsrc and
\* _replace_rsrc; imr is self.imr as the instance holds it.  The
\* referential integrity check is off by configuration.
create_or_replace_rsrc(c, uuid, provided_imr, create_only, imr, now) ==
  IF c.err # "" THEN c
  ELSE
  LET u == urn(uuid)
      create == create_only \/ imr = {}
      gr == legacy_add_srv_mgd_triples(u, provided_imr, create, now)
      kept == {t \in imr : t[2] \notin protected_pred}
      c1 == IF create
            THEN legacy_modify_rsrc(c, u, RES_CREATED, {}, gr, TRUE, now)
            ELSE legacy_modify_rsrc(c, u, RES_UPDATED, kept \ gr, gr \ kept,
                                    TRUE, now)
  IN IF \E t \in gr : t[1] # u THEN Raise(c, "SingleSubjectError")
     ELSE set_containment_rel(c1, uuid, gr, now)

\* Ldpr.post() and Ldpr.put(), wrapped by atomic.
legacy_post(c, uuid, provided_imr, now) ==
  atomic_exit(create_or_replace_rsrc(atomic_enter(c), uuid, provided_imr, TRUE,
                                     extract_imr(c.st, urn(uuid)), now))
legacy_put(c, uuid, provided_imr, now) ==
  atomic_exit(create_or_replace_rsrc(atomic_enter(c), uuid, provided_imr, FALSE,
                                     extract_imr(c.st, urn(uuid)), now))

\* Ldpr.create_version(ver_uid), wrapped by atomic; self.imr raises when
\* the resource is not stored.
legacy_create_version(c, uuid, ver_uid, now) ==
  LET c0 == atomic_enter(c)
      u == urn(uuid)
      imr == extract_imr(c0.st, u)
      ver_urn == Uri(VersUid(uuid, ver_uid))
      copied == {t \in imr :
                   ~(\/ (t[2] = RDF_TYPE /\ t[3] \in {FCREPO_BINARY,
                                                       FCREPO_CONTAINER,
                                                       FCREPO_RESOURCE})
                     \/ t[2] \in {HAS_PARENT, HAS_VERSIONS, HAS_DIGEST})}
      ver_add_gr == {<<ver_urn, RDF_TYPE, FCREPO_VERSION>>}
                      \cup {<<replace_term_domain(t[1], u, ver_urn), t[2], t[3]>> :
                              t \in copied}
      meta_add_gr == {<<u, HAS_VERSION, ver_urn>>,
                      <<ver_urn, CREATED, TS(now)>>,
                      <<ver_urn, HAS_VERSION_LABEL, <<ver_uid>>>>}
      rsrc_add_gr == {<<u, HAS_VERSIONS, Uri(uuid \o <<VERS_CONT_LABEL>>)>>}
      c1 == [c0 EXCEPT !.st = modify_dataset(modify_dataset(@, {}, ver_add_gr),
                                            {}, meta_add_gr)]
  IN atomic_exit(IF c0.err # "" THEN c0
                 ELSE IF imr = {} THEN Raise(c0, "ResourceNotExists")
                 ELSE legacy_modify_rsrc(c1, u, RES_UPDATED, {}, rsrc_add_gr,
                                         FALSE, now))

\* Ldpr.revert_to_version(ver_uid), wrapped by atomic; uuid is the label
\* uuid4() returns for the backup snapshot.  The instance holds the IMR that
\* create_version extracted.  What rdfly.get_version does for a version that
\* is not stored is not known: missing tells whether it raises or returns
\* an empty graph.
legacy_revert_to_version(c, uuid, ver_uid, uuid4, missing, now) ==
  LET c0 == atomic_enter(c)
      u == urn(uuid)
      imr == extract_imr(c0.st, u)
      c1 == legacy_create_version(c0, uuid, uuid4, now)
      ver_gr == get_version(c1.st, uuid, ver_uid)
      revert_gr == {<<u, t[2], t[3]>> : t \in {x \in ver_gr : ~is_trp_managed(x)}}
  IN atomic_exit(IF c1.err # "" THEN c1
                 ELSE IF ver_gr = {} /\ missing = "raise"
                   THEN Raise(c1, "ResourceNotExists")
                 ELSE create_or_replace_rsrc(c1, uuid, revert_gr, FALSE, imr,
                                             now))

(* ------------------------------ requests ------------------------------ *)
Handlings == {"strict", "lenient", "none"}
PayloadKinds == {"empty", "title", "typed", "dc"}
\* The payloads of containers with membership rules, and of their children.
ContainerKinds == {"empty", "dc", "dcroot", "ic"}
MemberKinds == ContainerKinds \cup {"rel"}
\* The payloads that come with a binary stream.
StreamKinds == {"binary", "binrs"}

\* The client graphs of the model, for the resource uid.
Payload(uid, kind) ==
  CASE kind = "empty" -> {}
    [] kind = "title" -> {<<Uri(uid), DC_TITLE, <<"t1">>>>}
    [] kind = "typed" -> {<<Uri(uid), RDF_TYPE, EX_TYPE>>,
                          <<Uri(uid), DC_TITLE, <<"t2">>>>}
    [] kind = "dc" -> {<<Uri(uid), RDF_TYPE, LDP_DC>>}
    [] kind = "dcroot" -> {<<Uri(uid), RDF_TYPE, LDP_DC>>,
                           <<Uri(uid), MBR_RSRC_URI, Uri(ROOT_UID)>>,
                           <<Uri(uid), MBR_REL_URI, EX_REL>>}
    [] kind = "dcgone" -> {<<Uri(uid), RDF_TYPE, LDP_DC>>,
                           <<Uri(uid), MBR_RSRC_URI, Uri(<<"a", "a">>)>>,
                           <<Uri(uid), MBR_REL_URI, EX_REL>>}
    [] kind = "ic" -> {<<Uri(uid), RDF_TYPE, LDP_IC>>,
                       <<Uri(uid), INS_CNT_REL_URI, EX_INS>>}
    [] kind = "rel" -> {<<Uri(uid), EX_INS, EX_TARGET>>}
    [] kind = "link" -> {<<Uri(uid), EX_REL, Uri(<<"a">>)>>,
                         <<Uri(uid), DC_TITLE, <<"t1">>>>}
    [] kind = "binary" -> {}
    [] kind = "binrs" -> {<<Uri(uid), RDF_TYPE, LDP_RS_TYPE>>}
    [] kind = "nrtyped" -> {<<Uri(uid), RDF_TYPE, LDP_NR_TYPE>>}

\* The bootstrapped repository: the root container alone.
RootTriples ==
  {<<Uri(ROOT_UID), RDF_TYPE, t>> : t \in ClassBaseTypes("Ldpc")}
    \cup {<<Uri(ROOT_UID), CREATED, TS(0)>>,
          <<Uri(ROOT_UID), CREATED_BY, DEFAULT_USER>>,
          <<Uri(ROOT_UID), LAST_MODIFIED, TS(0)>>,
          <<Uri(ROOT_UID), LAST_MODIFIED_BY, DEFAULT_USER>>}

\* What a request finds stored at its target: the lifecycle state, the type
\* set, and whether version snapshots exist.
Found(st, uid) ==
  [state |-> IF st[uid] = {} THEN "absent"
             ELSE IF IsTombstone(st, uid) THEN "tombstone"
             ELSE IF ask_rsrc_exists(st, uid) THEN "live"
             ELSE "other",
   types |-> TypesOf(st[uid], Uri(uid)),
   versions |-> \E l \in Labels : st[VersUid(uid, l)] # {}]

\* The request that ran last: its operation, target and error ("" when it
\* committed), its flag (create_only or inbound), what it was given (the
\* payload kind or version label, and the handling where one applies), what
\* it found, and whether it repeats the committed request before it.
Request(op, uid, err, flag, given, handling) ==
  [op |-> op, uid |-> uid, err |-> err, flag |-> flag, given |-> given,
   handling |-> handling, found |-> Found(store, uid),
   again |-> /\ last.err = ""
             /\ <<last.op, last.uid, last.flag, last.given, last.handling>>
                  = <<op, uid, flag, given, handling>>]

InitStore == [u \in AllUids |-> IF u = ROOT_UID THEN RootTriples ELSE {}]
NoRequest ==
  [op |-> "init", uid |-> ROOT_UID, err |-> "", flag |-> FALSE, given |-> "",
   handling |-> "", found |-> Found(InitStore, ROOT_UID), again |-> FALSE]

\* A repository that already holds the containers down to uid, created
\* when it was set up.
Populated(uid) ==
  IF uid = ROOT_UID THEN InitStore
  ELSE create_or_replace(Ctx(InitStore, <<>>), uid, "Ldpc", {}, FALSE,
                         None, None, 0).st

Init ==
  /\ config = [messaging |-> FALSE, ref_int |-> "off"]
  /\ \E uid \in UIDS : store = Populated(uid)
  /\ changelog = <<>>
  /\ clock = 0
  /\ last = NoRequest

\* Variant of Finish: the writes issued before an exception stay.
Finish_partial(ctx, req) ==
  /\ store' = ctx.st
  /\ changelog' = IF ctx.err = "" THEN ctx.log ELSE changelog
  /\ clock' = IF ctx.err = "" THEN clock + 1 ELSE clock
  /\ last' = [req EXCEPT !.err = ctx.err]
  /\ UNCHANGED config

\* A request ends: commit on success, roll the store back on an exception.
Finish(ctx, req) ==
  /\ store' = IF ctx.err = "" THEN ctx.st ELSE store
  /\ changelog' = IF ctx.err = "" THEN ctx.log ELSE changelog
  /\ clock' = IF ctx.err = "" THEN clock + 1 ELSE clock
  /\ last' = [req EXCEPT !.err = ctx.err]
  /\ UNCHANGED config

\* The orders in which the store may enumerate the resources of S.
Perms(S) ==
  {f \in [1..Cardinality(S) -> S] : \A i, j \in 1..Cardinality(S) :
                                       f[i] = f[j] => i = j}

\* The values metadata.value(p) may return for the stored resource.
StoredValues(uid, p) ==
  IF Values(store[uid], Uri(uid), p) = {} THEN {None}
  ELSE Values(store[uid], Uri(uid), p)

\* uuid4() never returns a label in use; which unused label it returns
\* makes no difference, so the model takes the first of them.
UnusedUuid(i) == \A u \in UIDS : store[VersUid(u, ToString(i))] = {}
FreshUuids ==
  {ToString(i) : i \in {j \in 1..MaxUuid :
                          UnusedUuid(j) /\ \A k \in 1..(j - 1) : ~UnusedUuid(k)}}

\* A request that raises leaves the store, the changelog and the clock as
\* they were, so whatever follows it could as well follow the state before
\* it: a behaviour is followed up to its first failed request.
Open == clock < MaxClock /\ last.err = ""

\* PUT / POST: from_provided, then create_or_replace(create_only).
CreateOrReplace(uid, kind, handling, create_only) ==
  /\ Open
  /\ LET now == clock + 1
         inst == from_provided(store, uid, kind \in StreamKinds,
                               Payload(uid, kind), handling)
         ctx0 == Ctx(store, changelog)
         req == Request("create_or_replace", uid, "", create_only, kind,
                        handling)
     IN IF inst.err # ""
        THEN Finish(Raise(ctx0, inst.err), req)
        ELSE \E cr \in StoredValues(uid, CREATED),
                cb \in StoredValues(uid, CREATED_BY) :
               Finish(create_or_replace(ctx0, uid, inst.cls, inst.imr,
                                        create_only, cr, cb, now), req)

\* Soft delete: from_stored (strict), then bury(inbound).
Bury(uid, inbound) ==
  /\ Open
  /\ LET now == clock + 1
         ctx0 == Ctx(store, changelog)
         req == [before |-> store] @@ Request("bury", uid, "", inbound, "", "")
         e == from_stored_err(store, uid, TRUE)
         rel == get_descendants(store, uid) \cup
                (IF inbound
                 THEN {u \in UIDS : \E t \in store[u] : t[3] = Uri(uid)}
                 ELSE {})
     IN IF e # ""
        THEN Finish(Raise(ctx0, e), req)
        ELSE \E ord \in Perms(rel),
                uuid \in (IF inbound THEN FreshUuids ELSE {""}) :
               Finish(bury(ctx0, uid, inbound, None, inbound, ord, uuid, now, {}),
                      req)

\* Hard delete: forget(uid, inbound).
Forget(uid, inbound) ==
  /\ Open
  /\ Finish(forget(Ctx(store, changelog), uid, inbound),
            Request("forget", uid, "", inbound, "", ""))

\* from_stored (not strict), then resurrect().
Resurrect(uid) ==
  /\ Open
  /\ LET now == clock + 1
         ctx0 == Ctx(store, changelog)
         req == Request("resurrect", uid, "", FALSE, "", "")
         e == from_stored_err(store, uid, FALSE)
     IN IF e # ""
        THEN Finish(Raise(ctx0, e), req)
        ELSE \E ord \in Perms(get_descendants(store, uid)) :
               Finish(resurrect(ctx0, uid, ord, now, {}), req)

\* from_stored (strict), then create_version(label); label "" is no label.
CreateVersion(uid, label) ==
  /\ Open
  /\ LET now == clock + 1
         ctx0 == Ctx(store, changelog)
         req == Request("create_version", uid, "", FALSE, label, "")
         e == from_stored_err(store, uid, TRUE)
     IN IF e # ""
        THEN Finish(Raise(ctx0, e), req)
        ELSE \E uuid \in FreshUuids :
               Finish(create_version(ctx0, uid, Uri(uid),
                                     IF label = "" THEN None ELSE <<label>>,
                                     uuid, now), req)

\* A raw modify on the instance Ldpr(uid): ev_type is RES_UPDATED, or None
\* when notified is false; the title triples are removed and the payload of
\* the given kind is added.
Modify(uid, notified, kind) ==
  /\ Open
  /\ LET now == clock + 1
         req == Request("modify", uid, "", notified, kind, "")
     IN Finish(modify(Ctx(store, changelog), uid,
                      IF notified THEN RES_UPDATED ELSE "",
                      {<<Uri(uid), DC_TITLE, None>>}, Payload(uid, kind), now),
               req)

\* from_stored (strict), then revert_to_version(label, backup).
RevertToVersion(uid, label, backup) ==
  /\ Open
  /\ LET now == clock + 1
         ctx0 == Ctx(store, changelog)
         req == Request("revert_to_version", uid, "", backup, label, "")
         e == from_stored_err(store, uid, TRUE)
     IN IF e # ""
        THEN Finish(Raise(ctx0, e), req)
        ELSE \E uuid \in (IF backup THEN FreshUuids ELSE {""}),
                cr \in StoredValues(uid, CREATED),
                cb \in StoredValues(uid, CREATED_BY) :
               Finish(revert_to_version(ctx0, uid, label, backup, uuid, cr, cb,
                                        now), req)

\* The UID strings given to the factory: well-formed ones, relative ones,
\* the empty one and one with a trailing slash.
UidStrs ==
  {Str(uid) : uid \in UIDS}
    \cup {<<>>, <<"a">>, <<"a", "/", "a">>, <<"/", "a", "/">>}
\* The paths suggested to mint_uid: none, relative ones and an absolute one.
Slugs == {<<>>, <<"a">>, <<"a", "/", "a">>, <<"/", "a">>}

\* The request record of a factory call: its arguments and what it returns.
FactoryRequest(op, arg, path, result) ==
  [arg |-> arg, path |-> path, result |-> result]
    @@ Request(op, ROOT_UID, "", FALSE, "", "")

\* LdpFactory.new_container(uid) called on its own.
NewContainer(s) ==
  /\ Open
  /\ LET ctx0 == Ctx(store, changelog)
         inst == new_container(store, s)
     IN Finish(IF inst.err # "" THEN Raise(ctx0, inst.err) ELSE ctx0,
               FactoryRequest("new_container", s, <<>>, inst.imr))

\* LdpFactory.mint_uid(parent_uid, path) called on its own.
MintUid(parent_uid, path) ==
  /\ Open
  /\ \E uuid \in UuidLabels :
       LET ctx0 == Ctx(store, changelog)
           r == mint_uid(store, parent_uid, path, uuid)
       IN Finish(IF r.err # "" THEN Raise(ctx0, r.err) ELSE ctx0,
                 FactoryRequest("mint_uid", parent_uid, path, r.uid))

(* --------------------------- specifications --------------------------- *)
\* The handling makes no difference to a payload without server-managed
\* terms: one handling stands for all of them there.
HasMgdTerm(uid, kind) ==
  check_mgd_terms(Payload(uid, kind), "lenient", TRUE).gr # Payload(uid, kind)
HandlingsFor(uid, kind, handlings) ==
  IF HasMgdTerm(uid, kind) THEN handlings
  ELSE {CHOOSE h \in handlings : TRUE}

CreateReq(kinds, handlings, modes) ==
  \E uid \in UIDS, kind \in kinds, co \in modes :
    \E h \in HandlingsFor(uid, kind, handlings) :
      CreateOrReplace(uid, kind, h, co)
BuryReq == \E uid \in UIDS, inbound \in BOOLEAN : Bury(uid, inbound)
ForgetReq == \E uid \in UIDS, inbound \in BOOLEAN : Forget(uid, inbound)
ResurrectReq == \E uid \in UIDS : Resurrect(uid)
CreateVersionReq ==
  \E uid \in UIDS, label \in {""} \cup UserLabels :
    CreateVersion(uid, label)

\* Every request of the model.
Next ==
  \/ CreateReq(PayloadKinds, Handlings, BOOLEAN)
  \/ BuryReq
  \/ ForgetReq
  \/ ResurrectReq
  \/ CreateVersionReq

Spec == Init /\ [][Next]_vars

\* Creates and replaces alone, with every payload, handling and mode.
NextCreate == clock < MaxCreate /\ CreateReq(PayloadKinds, Handlings, BOOLEAN)
SpecCreate == Init /\ [][NextCreate]_vars

\* The lifecycle: plain creates, burials, resurrections and purges.
NextLife ==
  \/ CreateReq({"empty"}, {"lenient"}, {FALSE})
  \/ BuryReq
  \/ ForgetReq
  \/ ResurrectReq
SpecLife == Init /\ [][NextLife]_vars

\* Versioning over the lifecycle.
NextVers ==
  \/ CreateReq({"typed"}, {"lenient"}, {FALSE})
  \/ CreateVersionReq
  \/ BuryReq
  \/ ResurrectReq
SpecVers == Init /\ [][NextVers]_vars

\* Versioning over replaces and reverts.
RevertReq ==
  \E uid \in UIDS, label \in Labels, backup \in BOOLEAN :
    RevertToVersion(uid, label, backup)
NextRev ==
  \/ CreateReq({"title", "typed"}, {"lenient"}, {FALSE})
  \/ CreateVersionReq
  \/ RevertReq
SpecRev == Init /\ [][NextRev]_vars

\* Change notification of versioning, with messaging enabled or disabled by
\* the configuration.
InitMsg ==
  /\ \E messaging \in BOOLEAN :
       config = [messaging |-> messaging, ref_int |-> "off"]
  /\ \E uid \in UIDS : store = Populated(uid)
  /\ changelog = <<>>
  /\ clock = 0
  /\ last = NoRequest
NextMsg ==
  \/ CreateReq({"typed"}, {"lenient"}, {FALSE})
  \/ CreateVersionReq
  \/ RevertReq
SpecMsg == InitMsg /\ [][NextMsg]_vars

\* Raw modify calls, notified or not, among creates, replaces and burials.
ModifyReq ==
  \E uid \in UIDS, notified \in BOOLEAN : Modify(uid, notified, "typed")
NextModify ==
  \/ ModifyReq
  \/ CreateReq({"empty"}, {"lenient"}, {FALSE})
  \/ BuryReq
SpecModify == InitMsg /\ [][NextModify]_vars

\* A repository whose container /a was created from the payload of the
\* given kind: what from_provided makes of the payload, then the store.
Provided(kind) ==
  from_provided(InitStore, <<"a">>, FALSE, Payload(<<"a">>, kind), "lenient")
Housed(kind) ==
  create_or_replace(Ctx(InitStore, <<>>), <<"a">>, Provided(kind).cls,
                    Provided(kind).imr, FALSE, None, None, 0).st

\* Membership: creates and replaces under basic, direct and indirect
\* containers, with messaging enabled.
InitMember ==
  /\ config = [messaging |-> TRUE, ref_int |-> "off"]
  /\ \E kind \in ContainerKinds : store = Housed(kind)
  /\ changelog = <<>>
  /\ clock = 0
  /\ last = NoRequest
NextMember == clock < MaxCreate /\ CreateReq(MemberKinds, {"lenient"}, {FALSE})
SpecMember == InitMember /\ [][NextMember]_vars

\* RDF sources and non-RDF sources: creates and replaces with and without
\* a binary stream.
NextKind ==
  /\ clock < MaxCreate
  /\ CreateReq({"empty", "nrtyped"} \cup StreamKinds, {"strict", "none"},
               {FALSE})
SpecKind == Init /\ [][NextKind]_vars

\* Referential integrity enforced, strictly or not: creates and replaces
\* with payloads that link to /a.
InitRef ==
  /\ \E ref_int \in {"strict", "lenient"} :
       config = [messaging |-> TRUE, ref_int |-> ref_int]
  /\ \E uid \in UIDS : store = Populated(uid)
  /\ changelog = <<>>
  /\ clock = 0
  /\ last = NoRequest
NextRef == clock < MaxCreate /\ CreateReq({"empty", "link"}, {"lenient"}, {FALSE})
SpecRef == InitRef /\ [][NextRef]_vars

\* Requests that fail part-way: a repository whose container /a is basic,
\* or a direct container, naming itself or the missing /a/a as its
\* membership resource; creates and replaces among burials and
\* resurrections.
InitAtomic ==
  /\ config = [messaging |-> FALSE, ref_int |-> "off"]
  /\ \/ \E kind \in {"dc", "dcgone"} : store = Housed(kind)
     \/ \E uid \in UIDS : store = Populated(uid)
  /\ changelog = <<>>
  /\ clock = 0
  /\ last = NoRequest
NextAtomic ==
  \/ CreateReq({"empty"}, {"lenient"}, BOOLEAN)
  \/ BuryReq
  \/ ResurrectReq
SpecAtomic == InitAtomic /\ [][NextAtomic]_vars

\* The factory called on its own, among creates of containers and of
\* non-RDF sources, and burials.
NextFactory ==
  \/ \E s \in UidStrs : NewContainer(s)
  \/ \E parent_uid \in UidStrs, path \in Slugs : MintUid(parent_uid, path)
  \/ CreateReq({"empty", "binary"}, {"lenient"}, {FALSE})
  \/ BuryReq
SpecFactory == Init /\ [][NextFactory]_vars

\* The legacy layer.  store is the dataset as of the last commit, changelog
\* the events handed to _send_event_msg so far; the resources are the root
\* and /a, whose parent is found without a pairtree.
LegacyUuids == {ROOT_UID, <<"a">>}
LegacyKinds == {"empty", "rel", "ic", "alien"}
LegacyPayload(u, kind) ==
  CASE kind = "empty" -> {}
    [] kind = "rel" -> {<<u, EX_INS, EX_TARGET>>}
    [] kind = "ic" -> {<<u, RDF_TYPE, LDP_IC>>,
                       <<u, MBR_RSRC_URI, Uri(<<"a">>)>>,
                       <<u, MBR_REL_URI, EX_REL>>,
                       <<u, INS_CNT_REL_URI, EX_INS>>}
    [] kind = "alien" -> {<<EX_TARGET, DC_TITLE, <<"t1">>>>}

LegacyRequest(op, uuid, given) ==
  [op |-> op, uid |-> uuid, err |-> "", flag |-> FALSE, given |-> given,
   handling |-> "", enqueued |-> <<>>, commits |-> 0]

\* A legacy repository: the root, and /a when it was posted at set-up.
LegacyPopulated(uuid) ==
  LET root == {<<ROOT_NODE_URN, t[2], t[3]>> : t \in RootTriples}
  IN IF uuid = ROOT_UID THEN root
     ELSE legacy_post(LegacyCtx(root), uuid, {}, 0).durable

InitLegacy ==
  /\ \E messaging \in BOOLEAN :
       config = [messaging |-> messaging, ref_int |-> "off"]
  /\ \E uuid \in LegacyUuids : store = LegacyPopulated(uuid)
  /\ changelog = <<>>
  /\ clock = 0
  /\ last = LegacyRequest("init", ROOT_UID, "")

\* A legacy request ends: the store is what the last commit left, and the
\* events handed over join those of the requests before.
LegacyFinish(c, req) ==
  /\ store' = c.durable
  /\ changelog' = changelog \o c.sent
  /\ clock' = IF c.err = "" THEN clock + 1 ELSE clock
  /\ last' = [req EXCEPT !.err = c.err, !.enqueued = c.all,
                         !.commits = c.commits]
  /\ UNCHANGED config

Post(uuid, kind) ==
  /\ Open
  /\ LegacyFinish(legacy_post(LegacyCtx(store), uuid,
                              LegacyPayload(urn(uuid), kind), clock + 1),
                  LegacyRequest("post", uuid, kind))
Put(uuid, kind) ==
  /\ Open
  /\ LegacyFinish(legacy_put(LegacyCtx(store), uuid,
                             LegacyPayload(urn(uuid), kind), clock + 1),
                  LegacyRequest("put", uuid, kind))
LegacyCreateVersion(uuid, ver_uid) ==
  /\ Open
  /\ LegacyFinish(legacy_create_version(LegacyCtx(store), uuid, ver_uid,
                                        clock + 1),
                  LegacyRequest("create_version", uuid, ver_uid))
\* uuid4() returns a label no version of the resource carries; the first
\* of them stands for all.
LegacyRevertToVersion(uuid, ver_uid) ==
  /\ Open
  /\ \E j \in 1..MaxUuid, missing \in {"raise", "empty"} :
       /\ get_version(store, uuid, ToString(j)) = {}
       /\ \A k \in 1..(j - 1) : get_version(store, uuid, ToString(k)) # {}
       /\ LegacyFinish(legacy_revert_to_version(LegacyCtx(store), uuid, ver_uid,
                                                ToString(j), missing, clock + 1),
                       LegacyRequest("revert_to_version", uuid, ver_uid))

NextLegacy ==
  \/ \E uuid \in LegacyUuids, kind \in LegacyKinds : Post(uuid, kind)
  \/ \E uuid \in LegacyUuids, kind \in LegacyKinds : Put(uuid, kind)
  \/ \E uuid \in LegacyUuids, ver_uid \in UserLabels :
       LegacyCreateVersion(uuid, ver_uid)
  \/ \E uuid \in LegacyUuids, ver_uid \in UserLabels :
       LegacyRevertToVersion(uuid, ver_uid)
SpecLegacy == InitLegacy /\ [][NextLegacy]_vars

\* The triples the graphs given to check_mgd_terms are made of: a managed
\* subject, a managed predicate, a managed type, the two container markers,
\* and a client property and type.
TermPool ==
  LET uri == Uri(<<"a">>)
  IN {<<FCSYSTEM_ROOT, DC_TITLE, <<"t1">>>>,
      <<uri, CREATED, TS(0)>>,
      <<uri, RDF_TYPE, LDP_RS_TYPE>>,
      <<uri, RDF_TYPE, LDP_DC>>,
      <<uri, RDF_TYPE, LDP_IC>>,
      <<uri, DC_TITLE, <<"t1">>>>,
      <<uri, RDF_TYPE, EX_TYPE>>}

\* check_mgd_terms alone: a graph, the instance's handling and whether the
\* resource is stored are drawn at the start; the call runs once.
InitCheck ==
  /\ config = [messaging |-> FALSE, ref_int |-> "off"]
  /\ store = InitStore
  /\ changelog = <<>>
  /\ clock = 0
  /\ \E trp \in SUBSET TermPool, handling \in Handlings, is_stored \in BOOLEAN :
       last = [op |-> "input", given |-> trp, handling |-> handling,
               flag |-> is_stored, err |-> "", off |-> {}, out |-> {}]
CheckMgdTerms ==
  /\ last.op = "input"
  /\ LET res == check_mgd_terms(last.given, last.handling, last.flag)
     IN last' = [last EXCEPT !.op = "check_mgd_terms", !.err = res.err,
                             !.off = res.off, !.out = res.gr]
  /\ UNCHANGED <<store, changelog, config, clock>>
SpecCheck == InitCheck /\ [][CheckMgdTerms]_vars

\* The triples the graphs and updates given to sparql_delta are made of: a
\* managed predicate, a container marker, a client property and type, all
\* on the resource /a, and a client property on another resource.
DeltaPool ==
  LET uri == Uri(<<"a">>)
  IN {<<uri, CREATED, TS(0)>>,
      <<uri, RDF_TYPE, LDP_DC>>,
      <<uri, DC_TITLE, <<"t1">>>>,
      <<uri, RDF_TYPE, EX_TYPE>>,
      <<Uri(<<"a", "a">>), DC_TITLE, <<"t1">>>>}

\* sparql_delta alone, on the resource /a: the resource's graph, the update,
\* the instance's handling and whether the resource is stored are drawn at
\* the start; the call runs once.
InitDelta ==
  /\ config = [messaging |-> FALSE, ref_int |-> "off"]
  /\ store = InitStore
  /\ changelog = <<>>
  /\ clock = 0
  /\ \E pre_gr \in SUBSET {t \in DeltaPool : t[1] = Uri(<<"a">>)},
        delete \in SUBSET DeltaPool,
        insert \in SUBSET DeltaPool, handling \in Handlings,
        is_stored \in BOOLEAN :
       last = [op |-> "input", given |-> pre_gr, delete |-> delete,
               insert |-> insert, handling |-> handling, flag |-> is_stored,
               err |-> "", post |-> {}, remove |-> {}, add |-> {}]
SparqlDelta ==
  /\ last.op = "input"
  /\ LET res == sparql_delta(last.given, last.delete, last.insert,
                             last.handling, last.flag)
     IN last' = [last EXCEPT !.op = "sparql_delta", !.err = res.err,
                             !.post = res.post, !.remove = res.remove,
                             !.add = res.add]
  /\ UNCHANGED <<store, changelog, config, clock>>
SpecDelta == InitDelta /\ [][SparqlDelta]_vars

(* ------------------------------ properties ---------------------------- *)
\* The step commits a request of operation op.
Committed(op) == last'.op = op /\ last'.err = "" /\ clock' = clock + 1

\* The lifecycle states of section 4.2, read off the stored triples.
Live(st, uid) == ask_rsrc_exists(st, uid)
Tombstoned(st, uid) == IsTombstone(st, uid)
Path(uid, k) == SubSeq(uid, 1, k)
Parent(uid) == Path(uid, Len(uid) - 1)

\* C1: after bury (no tombstone pointer) completes on a Live resource r, r is
\* Tombstoned and not Live: it carries the tombstone type marker and a burial
\* timestamp, its live-type triple is gone, the store no longer reports it as
\* existing, and a strict from_stored fails with Tombstone; so no resource is
\* both Live and Tombstoned.
C1_BuryLeavesTombstoneOnly ==
  [][(Committed("bury") /\ Live(store, last'.uid))
       => LET r == last'.uid
          IN /\ <<Uri(r), RDF_TYPE, TOMBSTONE_TYPE>> \in store'[r]
             /\ Values(store'[r], Uri(r), BURIED) # {}
             /\ <<Uri(r), RDF_TYPE, LDP_RESOURCE>> \notin store'[r]
             /\ ~ask_rsrc_exists(store', r)
             /\ from_stored_err(store', r, TRUE) = "Tombstone"
             /\ \A u \in UIDS : ~(Live(store', u) /\ Tombstoned(store', u))]_vars

\* C2: over any sequence of create_or_replace calls on one UID the stored
\* resource has exactly one created and one createdBy value, those of its
\* first creation, and lastModified is the timestamp of the latest call.
C2_CreatedFixedModifiedFresh ==
  [][Committed("create_or_replace")
       => LET r == last'.uid
              uri == Uri(r)
              first == store[r] = {}
          IN /\ Values(store'[r], uri, CREATED) =
                  (IF first THEN {TS(clock')} ELSE Values(store[r], uri, CREATED))
             /\ Values(store'[r], uri, CREATED_BY) =
                  (IF first THEN {DEFAULT_USER}
                   ELSE Values(store[r], uri, CREATED_BY))
             /\ Cardinality(Values(store'[r], uri, CREATED)) = 1
             /\ Cardinality(Values(store'[r], uri, CREATED_BY)) = 1
             /\ Values(store'[r], uri, LAST_MODIFIED) = {TS(clock')}]_vars

\* The resources holding a contains edge to uid.
Containers(st, uid) ==
  {p \in UIDS : <<Uri(p), LDP_CONTAINS, Uri(uid)>> \in st[p]}

\* C3: in every reachable state every Live resource other than root has
\* exactly one incoming contains edge, and it comes from the resource at the
\* immediate path parent of its UID.  (Live is taken strictly here: reported
\* as existing and carrying no tombstone triple.)
C3_OneContainsEdgeFromParent ==
  \A u \in UIDS \ {ROOT_UID} :
    (Live(store, u) /\ ~Tombstoned(store, u))
      => Containers(store, u) = {Parent(u)}

\* C4: creating a resource whose ancestors are missing leaves every missing
\* ancestor stored as a Live container, with a contains edge on each link of
\* the chain from the nearest pre-existing ancestor down to the new resource;
\* the ancestors that existed are not re-created (they only gain triples:
\* the contains edge, or a membership triple).
C4_MissingAncestorsSynthesized ==
  [][(/\ Committed("create_or_replace")
      /\ \E k \in 1..(Len(last'.uid) - 1) : store[Path(last'.uid, k)] = {})
       => LET r == last'.uid
          IN \A k \in 0..(Len(r) - 1) :
               LET p == Path(r, k)
                   c == Path(r, k + 1)
               IN /\ Live(store', p) /\ ~Tombstoned(store', p)
                  /\ from_stored_err(store', p, TRUE) = ""
                  /\ LDP_CONTAINER \in TypesOf(store'[p], Uri(p))
                  /\ store[c] = {}
                       => <<Uri(p), LDP_CONTAINS, Uri(c)>> \in store'[p]
                  /\ store[p] # {}
                       => /\ store[p] \subseteq store'[p]
                          /\ \A t \in store'[p] \ store[p] :
                               t[2] \in {LDP_CONTAINS, DEF_MBR_REL_URI}]_vars

\* C4 witness: /a/a is created in a repository holding root alone, which
\* synthesizes /a.
C4_Witness ==
  /\ last.op = "create_or_replace" /\ last.err = "" /\ clock = 1
  /\ last.uid = <<"a", "a">> /\ last.found.state = "absent"
  /\ Values(store[<<"a">>], Uri(<<"a">>), CREATED) = {TS(1)}
  /\ <<Uri(ROOT_UID), LDP_CONTAINS, Uri(<<"a">>)>> \in store[ROOT_UID]
  /\ <<Uri(<<"a">>), LDP_CONTAINS, Uri(<<"a", "a">>)>> \in store[<<"a">>]

\* The nearest buried ancestor of uid: the longest proper prefix of its path
\* that holds a tombstone.
BuriedAncestors(st, uid) ==
  {k \in 0..(Len(uid) - 1) : Tombstoned(st, Path(uid, k))}
NearestBuried(st, uid) ==
  Path(uid, CHOOSE k \in BuriedAncestors(st, uid) :
              \A j \in BuriedAncestors(st, uid) : j <= k)

\* C5: after bury(r) on a Live resource r, every descendant of r that was
\* Live is a pointer tombstone and no self-tombstone, holds exactly one
\* tombstone pointer, and the pointer references its nearest buried ancestor,
\* whatever order the store enumerates the descendants in.
C5_DescendantsPointToNearestBuried ==
  [][(Committed("bury") /\ last'.found.state = "live")
       => \A d \in get_descendants(store, last'.uid) :
            (Live(store, d) /\ ~Tombstoned(store, d))
              => /\ <<Uri(d), RDF_TYPE, TOMBSTONE_TYPE>> \notin store'[d]
                 /\ Cardinality(Values(store'[d], Uri(d), TOMBSTONE_PTR)) = 1
                 /\ BuriedAncestors(store', d) # {}
                 /\ Values(store'[d], Uri(d), TOMBSTONE_PTR)
                      = {Uri(NearestBuried(store', d))}]_vars

\* C6: after resurrect() on a Tombstoned resource r, r and every descendant
\* the store enumerates are Live: none keeps a tombstone type marker, a
\* tombstone pointer or a burial timestamp, each has the live-type triple,
\* and a strict from_stored succeeds on each.
C6_ResurrectRevivesSubtree ==
  [][(Committed("resurrect") /\ Tombstoned(store, last'.uid))
       => \A d \in {last'.uid} \cup get_descendants(store', last'.uid) :
            /\ <<Uri(d), RDF_TYPE, TOMBSTONE_TYPE>> \notin store'[d]
            /\ Values(store'[d], Uri(d), TOMBSTONE_PTR) = {}
            /\ Values(store'[d], Uri(d), BURIED) = {}
            /\ <<Uri(d), RDF_TYPE, LDP_RESOURCE>> \in store'[d]
            /\ from_stored_err(store', d, TRUE) = ""]_vars

\* C6 witness: /a, holding /a/a, was buried with its descendant and then
\* resurrected.
C6_Witness ==
  /\ last.op = "resurrect" /\ last.err = "" /\ clock = 2
  /\ last.uid = <<"a">> /\ last.found.state = "tombstone"
  /\ get_descendants(store, <<"a">>) = {<<"a", "a">>}
  /\ ~Tombstoned(store, ROOT_UID)
  /\ \A d \in {<<"a">>, <<"a", "a">>} :
       Live(store, d) /\ ~Tombstoned(store, d)

\* C7: bury followed by forget on the same UID removes all of the resource's
\* triples and its version history: afterwards ask_rsrc_exists is false and
\* from_stored fails with ResourceNotExists, not Tombstone.
C7_BuryThenForgetPurges ==
  [][(/\ last.op = "bury" /\ last.err = ""
      /\ Committed("forget") /\ last'.uid = last.uid)
       => LET r == last'.uid
          IN /\ store'[r] = {}
             /\ \A l \in Labels : store'[VersUid(r, l)] = {}
             /\ ~ask_rsrc_exists(store', r)
             /\ from_stored_err(store', r, TRUE) = "ResourceNotExists"
             /\ from_stored_err(store', r, FALSE) = "ResourceNotExists"]_vars

\* C7 witness: /a, snapshotted when its child was buried with its inbound
\* links, is buried and then forgotten.
C7_Witness ==
  /\ last.op = "forget" /\ last.err = "" /\ clock = 3
  /\ last.uid = <<"a">>
  /\ last.found.state = "tombstone" /\ last.found.versions
  /\ store[<<"a">>] = {}
  /\ ~Tombstoned(store, ROOT_UID)

\* The version snapshots stored for uid.
Snapshots(st, uid) == {l \in Labels : st[VersUid(uid, l)] # {}}

\* C8, as stated: bury followed by resurrect restores a resource whose type
\* set equals the type set of the most recent version snapshot taken before
\* the burial (checked where the resource has one snapshot, the most recent).
C8_TypesOfLatestSnapshot ==
  [][(/\ last.op = "bury" /\ last.err = ""
      /\ Committed("resurrect") /\ last'.uid = last.uid
      /\ Cardinality(Snapshots(store, last.uid)) = 1)
       => LET r == last'.uid
              ver == VersUid(r, CHOOSE l \in Snapshots(store, r) : TRUE)
          IN TypesOf(store'[r], Uri(r)) = TypesOf(store'[ver], Uri(ver))]_vars

\* C8, amended: bury followed by resurrect restores a resource whose type
\* set equals the type set it had immediately before the burial; no version
\* snapshot is consulted.
C8_TypesAsBeforeBurial ==
  [][(/\ last.op = "bury" /\ last.err = ""
      /\ Committed("resurrect") /\ last'.uid = last.uid)
       => TypesOf(store'[last'.uid], Uri(last'.uid)) = last.found.types]_vars

\* C8 witness: /a is snapshotted, buried and resurrected.
C8_Witness ==
  /\ last.op = "resurrect" /\ last.err = "" /\ clock = 3
  /\ last.uid = <<"a">> /\ last.found.state = "tombstone"
  /\ last.found.versions
  /\ Snapshots(store, <<"a">>) = {"v1"}
  /\ ~Tombstoned(store, ROOT_UID)

\* C9: a replace of a stored resource keeps its protected triples -- the
\* created and createdBy values and every contains edge to its children --
\* while every other triple it held is gone unless the replace writes it
\* again (the client payload and the server-managed triples stamped on it).
C9_ReplaceKeepsProtected ==
  [][(/\ Committed("create_or_replace") /\ ~last'.flag
      /\ last'.found.state = "live")
       => LET r == last'.uid
          IN /\ \A t \in store[r] :
                  t[2] \in {CREATED, CREATED_BY, LDP_CONTAINS}
                    => t \in store'[r]
             /\ \A t \in store[r] \cap store'[r] :
                  \/ t[2] \in {CREATED, CREATED_BY, LDP_CONTAINS}
                  \/ t \in Payload(r, last'.given)
                  \/ t[2] = RDF_TYPE /\ t[3] \in srv_mgd_types
                  \/ t[2] \in {LAST_MODIFIED_BY, HAS_PARENT}]_vars

\* C9 witness: /a, holding a client title, a client type and a child, is
\* replaced with the empty payload.
C9_Witness ==
  /\ last.op = "create_or_replace" /\ last.err = "" /\ ~last.flag
  /\ last.uid = <<"a">> /\ last.given = "empty"
  /\ last.found.state = "live" /\ EX_TYPE \in last.found.types
  /\ <<Uri(<<"a">>), LDP_CONTAINS, Uri(<<"a", "a">>)>> \in store[<<"a">>]
  /\ Values(store[<<"a">>], Uri(<<"a">>), DC_TITLE) = {}

\* C10: replaying a replace with an identical payload on a stored resource
\* leaves, after the second call, the triples the first call left, except
\* for lastModified.
C10_ReplaceTwiceSameTriples ==
  [][(/\ last.op = "create_or_replace" /\ last.err = "" /\ ~last.flag
      /\ last.found.state = "live"
      /\ Committed("create_or_replace") /\ last'.again)
       => {t \in store'[last'.uid] : t[2] # LAST_MODIFIED}
            = {t \in store[last'.uid] : t[2] # LAST_MODIFIED}]_vars

\* C10 witness: the stored /a is replaced twice with the typed payload.
C10_Witness ==
  /\ last.op = "create_or_replace" /\ last.err = "" /\ clock = 2
  /\ last.again /\ ~last.flag /\ last.found.state = "live"
  /\ last.uid = <<"a">> /\ last.given = "typed"
  /\ Values(store[<<"a">>], Uri(<<"a">>), CREATED) = {TS(0)}
  /\ Values(store[<<"a">>], Uri(<<"a">>), LAST_MODIFIED) = {TS(2)}

\* The events the step appends to the changelog.
Appended == SubSeq(changelog', Len(changelog) + 1, Len(changelog'))

\* C11: when create_or_replace runs as a replace (create false), the parent
\* container is not updated: no triple is written to any resource other than
\* the one being replaced and no change event is appended for the parent,
\* also when the parent is a Direct or Indirect Container.
C11_ReplaceLeavesParentAlone ==
  [][(/\ Committed("create_or_replace") /\ ~last'.flag
      /\ last'.found.state = "live" /\ last'.uid # ROOT_UID)
       => /\ \A u \in AllUids \ {last'.uid} : store'[u] = store[u]
          /\ \A i \in 1..Len(Appended) :
               Appended[i].uid # Parent(last'.uid)]_vars

\* C12: creating a child under a parent typed DirectContainer writes the
\* membership triple (m, p, childURI) to the membership resource m, where m is
\* the parent's membershipResource value or the parent itself when absent, and
\* p is the parent's hasMemberRelation value or ldp:member when absent; m may
\* be a third resource distinct from parent and child; and no membership
\* triple is written when the parent is a Basic Container.
C12_DirectMembershipWritten ==
  [][(/\ Committed("create_or_replace") /\ last'.found.state = "absent"
      /\ last'.uid # ROOT_UID)
       => LET r == last'.uid
              puri == Uri(Parent(r))
              meta == store'[Parent(r)]
              types == TypesOf(meta, puri)
              mr == Value(meta, puri, MBR_RSRC_URI)
              mp == Value(meta, puri, MBR_REL_URI)
              m == IF mr # None THEN mr ELSE puri
              p == IF mp # None THEN mp ELSE DEF_MBR_REL_URI
          IN /\ (LDP_DC \in types /\ LDP_IC \notin types)
                  => <<m, p, Uri(r)>> \in store'[uri_to_uid(m)]
             /\ (LDP_DC \notin types /\ LDP_IC \notin types)
                  => \A u \in AllUids \ {r} :
                       \A t \in store'[u] \ store[u] :
                         t[3] = Uri(r) => t = <<puri, LDP_CONTAINS, Uri(r)>>]_vars

\* C12 witness: /a/a is created under the direct container /a whose
\* membership resource is root and whose member relation is ex:hasPart.
C12_Witness ==
  /\ last.op = "create_or_replace" /\ last.err = ""
  /\ last.uid = <<"a", "a">> /\ last.found.state = "absent"
  /\ LDP_DC \in TypesOf(store[<<"a">>], Uri(<<"a">>))
  /\ Values(store[<<"a">>], Uri(<<"a">>), MBR_RSRC_URI) = {Uri(ROOT_UID)}
  /\ <<Uri(ROOT_UID), EX_REL, Uri(<<"a", "a">>)>> \in store[ROOT_UID]
  /\ \A t \in store[<<"a">>] : t[2] # EX_REL /\ t[2] # DEF_MBR_REL_URI

\* C13: creating a child under a parent typed IndirectContainer when the
\* child's own inbound payload has no value for the parent's
\* insertedContentRelation predicate writes no membership triple to the
\* membership resource and raises no error.
C13_IndirectSkipsWithoutValue ==
  [][LET r == last'.uid
         puri == Uri(Parent(r))
         rel == Value(store[Parent(r)], puri, INS_CNT_REL_URI)
     IN (/\ last'.op = "create_or_replace" /\ r # ROOT_UID
         /\ store[r] = {}
         /\ from_stored_err(store, Parent(r), TRUE) = ""
         /\ LDP_IC \in TypesOf(store[Parent(r)], puri)
         /\ rel # None
         /\ Values(Payload(r, last'.given), Uri(r), rel) = {})
          => /\ last'.err = ""
             /\ \A u \in AllUids \ {r} :
                  store'[u] \ store[u] \subseteq {<<puri, LDP_CONTAINS, Uri(r)>>}]_vars

\* Typed both RDF source and non-RDF source.
BothKinds(st, uid) ==
  {LDP_RS_TYPE, LDP_NR_TYPE} \subseteq TypesOf(st[uid], Uri(uid))

\* C14: switching kind on an existing resource is rejected: from_provided
\* with a binary stream on a UID stored as RDF source, or without a stream on
\* a UID stored as non-RDF source, fails with IncompatibleLdpType and leaves
\* the store unchanged, so no sequence of operations makes a resource typed
\* both RDF source and non-RDF source.
C14_KindNeverSwitched ==
  [][last'.op = "create_or_replace"
       => LET r == last'.uid
              stream == last'.given \in StreamKinds
              stored == TypesOf(store[r], Uri(r))
          IN /\ (/\ last'.found.state = "live"
                  /\ (IF stream THEN LDP_RS_TYPE ELSE LDP_NR_TYPE) \in stored)
                  => (last'.err = "IncompatibleLdpType" /\ store' = store)
             /\ \A u \in UIDS : ~BothKinds(store', u)]_vars

\* The graph holds no server-managed subject, predicate or rdf:type object,
\* but for the Direct/Indirect Container markers, allowed
\* while the resource is not stored.
NoMgdTerm(gr, is_stored) ==
  \A t \in gr :
    /\ t[1] \notin srv_mgd_subjects
    /\ t[2] \notin srv_mgd_predicates
    /\ t[2] = RDF_TYPE
         => \/ t[3] \notin srv_mgd_types
            \/ ~is_stored /\ t[3] \in {LDP_DC, LDP_IC}

\* C15: for every from_provided call whose handling is strict or lenient,
\* with or without a binary stream, either the call fails or the payload of
\* the returned instance contains no server-managed subject, predicate or
\* rdf:type object (other than the create-time allow-list); only handling
\* none lets a managed term through.
C15_ManagedTermsNeverAccepted ==
  [][(last'.op = "create_or_replace" /\ last'.handling \in {"strict", "lenient"})
       => LET r == last'.uid
              inst == from_provided(store, r, last'.given \in StreamKinds,
                                    Payload(r, last'.given), last'.handling)
          IN inst.err # "" \/ NoMgdTerm(inst.imr, ask_rsrc_exists(store, r))]_vars

\* The terms of a graph that are server-managed on the axis s, p or t.
Managed(gr, axis) ==
  CASE axis = "s" -> {t[1] : t \in gr} \cap srv_mgd_subjects
    [] axis = "p" -> {t[2] : t \in gr} \cap srv_mgd_predicates
    [] axis = "t" -> {t[3] : t \in {x \in gr : x[2] = RDF_TYPE}} \cap srv_mgd_types

\* What the strict mode owes: the graph comes back as it was given, or the
\* call fails naming an axis and the managed terms of the graph on it.
StrictOutcome ==
  (last.op = "check_mgd_terms" /\ last.handling = "strict")
    => /\ last.out = last.given
       /\ \/ last.err = "" /\ NoMgdTerm(last.given, last.flag)
          \/ \E axis \in {"s", "p", "t"} :
               /\ last.err = "ServerManagedTerm:" \o axis
               /\ last.off # {}
               /\ last.off = Managed(last.given, axis)
                               \ (IF axis = "t" /\ ~last.flag
                                  THEN {LDP_DC, LDP_IC} ELSE {})

\* C16, as stated: check_mgd_terms in strict mode never mutates its input
\* graph (it returns it unchanged or fails with ServerManagedTermError naming
\* the offending terms and the axis s, p or t); in lenient mode the returned
\* graph contains zero triples with a managed subject, a managed predicate or
\* a managed rdf:type object, and every non-offending triple of the input is
\* still present.
C16_StrictIntactLenientClean ==
  /\ StrictOutcome
  /\ (last.op = "check_mgd_terms" /\ last.handling = "lenient")
       => /\ last.err = ""
          /\ \A axis \in {"s", "p", "t"} : Managed(last.out, axis) = {}
          /\ \A t \in last.given : NoMgdTerm({t}, TRUE) => t \in last.out

\* C16, amended: as above, but in lenient mode the Direct/Indirect Container
\* type markers stay in the returned graph while the resource is not stored;
\* nothing is added to the graph.
C16_LenientCleanButMarkers ==
  /\ StrictOutcome
  /\ (last.op = "check_mgd_terms" /\ last.handling = "lenient")
       => /\ last.err = ""
          /\ last.out \subseteq last.given
          /\ NoMgdTerm(last.out, last.flag)
          /\ \A t \in last.given : NoMgdTerm({t}, last.flag) => t \in last.out

\* C16 witness: a graph holding every kind of term went through the lenient
\* mode for a resource that is not stored, and came back with the client
\* triples and the two container markers alone.
C16_Witness ==
  /\ last.op = "check_mgd_terms" /\ last.handling = "lenient" /\ ~last.flag
  /\ last.given = TermPool
  /\ last.out = {t \in TermPool :
                   /\ t[1] = Uri(<<"a">>)
                   /\ t[3] \in {LDP_DC, LDP_IC, EX_TYPE, <<"t1">>}}

\* C17: with handling none, check_mgd_terms performs no check: for every
\* input graph, including ones with server-managed terms, it returns the
\* graph with exactly the same triples and raises nothing, on every path that
\* calls it.
C17_NoneChecksNothing ==
  (last.op = "check_mgd_terms" /\ last.handling = "none")
    => (last.err = "" /\ last.out = last.given)

\* The container type markers of a graph.
Markers(gr) == {t \in gr : t[2] = RDF_TYPE /\ t[3] \in {LDP_DC, LDP_IC}}

\* C18: the Direct/Indirect Container rdf:type markers in a payload are
\* accepted by check_mgd_terms only while the resource is not stored; once
\* the resource is stored, the same payload fails on the type axis under
\* strict handling and has those type triples stripped under lenient
\* handling.  (Checked on the payloads with a marker and no managed subject
\* or predicate.)
C18_MarkersOnlyOnCreate ==
  (/\ last.op = "check_mgd_terms" /\ last.handling \in {"strict", "lenient"}
   /\ Markers(last.given) # {}
   /\ Managed(last.given, "s") = {} /\ Managed(last.given, "p") = {})
    => IF ~last.flag
       THEN /\ last.err = "" => Markers(last.given) \subseteq last.out
            /\ Managed(last.given, "t") \subseteq {LDP_DC, LDP_IC}
                 => (last.err = "" /\ last.out = last.given)
       ELSE IF last.handling = "strict"
       THEN /\ last.err = "ServerManagedTerm:t"
            /\ {t[3] : t \in Markers(last.given)} \subseteq last.off
       ELSE /\ last.err = ""
            /\ Markers(last.out) = {}

\* C18 witness: the payload of a direct container with a title is checked in
\* strict mode for a stored resource, and fails on the type axis.
C18_Witness ==
  /\ last.op = "check_mgd_terms" /\ last.handling = "strict" /\ last.flag
  /\ last.given = {<<Uri(<<"a">>), RDF_TYPE, LDP_DC>>,
                   <<Uri(<<"a">>), DC_TITLE, <<"t1">>>>}
  /\ last.err = "ServerManagedTerm:t" /\ last.off = {LDP_DC}

\* The internal resources a payload for uid links to that are not stored,
\* uid itself left aside.
Missing(st, uid, gr) ==
  {o \in {t[3] : t \in gr} :
     IsFcres(o) /\ o # Uri(uid) /\ ~ask_rsrc_exists(st, uri_to_uid(o))}

Returned == last.op = "sparql_delta" /\ last.err = ""

C21_ForeignSubjectsRejected ==
  last.op = "sparql_delta"
    => /\ (\E t \in last.delete \cup last.insert : t[1] # Uri(<<"a">>))
            => last.err # ""
       /\ \A t \in last.remove \cup last.add : t[1] = Uri(<<"a">>)
       /\ store = InitStore /\ changelog = <<>>


\* C22: version labels are unique per resource: across any sequence of
\* create_version calls (with absent, fresh or colliding labels) interleaved
\* with replace and revert_to_version, every create_version persists its
\* snapshot under a version UID that no existing snapshot of that resource
\* uses, so no snapshot is ever overwritten and the number of snapshots grows
\* by exactly one per call.
C22_VersionLabelsUnique ==
  [][Committed("create_version")
       => LET r == last'.uid
          IN /\ \A l \in Snapshots(store, r) :
                  store'[VersUid(r, l)] = store[VersUid(r, l)]
             /\ Cardinality(Snapshots(store', r))
                  = Cardinality(Snapshots(store, r)) + 1]_vars


\* The version of r that a create_version step links r to.
NewVersion(r) ==
  CHOOSE v \in {VersUid(r, l) : l \in Labels} :
    <<Uri(r), HAS_VERSION, Uri(v)>> \in store'[r] \ store[r]

C24_HasVersionsOnlyFirst ==
  [][(Committed("create_version") /\ config.messaging)
       => LET r == last'.uid
          IN /\ \E l \in Labels :
                  <<Uri(r), HAS_VERSION, Uri(VersUid(r, l))>>
                    \in store'[r] \ store[r]
             /\ \E i \in 1..Len(Appended) :
                  /\ Appended[i].uid = r
                  /\ \E t \in Appended[i].add : t[2] = HAS_VERSION
             /\ last'.found.versions
                  => \A i \in 1..Len(Appended) :
                       \A t \in Appended[i].add : t[2] # HAS_VERSIONS]_vars


\* C25: create_version never appends a change event for the snapshot write;
\* the only event it can append is one Updated event for the live resource's
\* version-edge write, and that event can be suppressed without suppressing
\* the snapshot write: with messaging disabled no event is appended and the
\* snapshot is written all the same.
C25_SnapshotWriteNotNotified ==
  [][Committed("create_version")
       => LET r == last'.uid
              ver == NewVersion(r)
          IN /\ <<Uri(ver), RDF_TYPE, FCREPO_VERSION>> \in store'[ver]
             /\ Len(Appended) = (IF config.messaging THEN 1 ELSE 0)
             /\ \A i \in 1..Len(Appended) :
                  /\ Appended[i].ev_type = RES_UPDATED
                  /\ Appended[i].uid = r
                  /\ Appended[i].remove = {}
                  /\ \A t \in Appended[i].add :
                       t[1] = Uri(r) /\ t[2] \in {HAS_VERSION, HAS_VERSIONS}]_vars
\* C25 witness: with messaging enabled, /a is snapshotted and the changelog
\* holds the one event of the version-edge write.
C25_Witness ==
  /\ config.messaging
  /\ last.op = "create_version" /\ last.err = "" /\ last.uid = <<"a">>
  /\ clock = 1 /\ Len(changelog) = 1
  /\ changelog[1].ev_type = RES_UPDATED /\ changelog[1].uid = <<"a">>
  /\ Snapshots(store, <<"a">>) = {"v1"}


\* The triples of gr that are not server-managed, with the subject set to s.
ClientTriples(gr, s) == {<<s, t[2], t[3]>> : t \in {x \in gr : ~is_trp_managed(x)}}

\* C26: revert_to_version(label, backup) on a resource with snapshot `label`:
\* when backup is true exactly one new snapshot holding the pre-revert state
\* is created before anything else, when false none is; then the live
\* resource is replaced through create_or_replace(replace), so afterwards its
\* non-server-managed triples equal the snapshot's non-server-managed triples
\* with the subject set back to the live URI, and its existing version
\* snapshots are still listed.
C26_RevertRestoresSnapshot ==
  [][(/\ Committed("revert_to_version")
      /\ last'.given \in Snapshots(store, last'.uid))
       => LET r == last'.uid
              ver == VersUid(r, last'.given)
              new == Snapshots(store', r) \ Snapshots(store, r)
          IN /\ Cardinality(new) = (IF last'.flag THEN 1 ELSE 0)
             /\ \A l \in new :
                  ClientTriples(store'[VersUid(r, l)], Uri(r))
                    = ClientTriples(store[r], Uri(r))
             /\ ClientTriples(store'[r], Uri(r)) = ClientTriples(store[ver], Uri(r))
             /\ {t \in store'[r] : ~is_trp_managed(t)}
                  = ClientTriples(store[ver], Uri(r))
             /\ \A l \in Snapshots(store, r) :
                  /\ store'[VersUid(r, l)] = store[VersUid(r, l)]
                  /\ l \in version_uids(store', r)]_vars


\* C27: every modify call appends exactly one change event to the changelog,
\* after its store write, if and only if its event kind is not the
\* suppressed sentinel (None) and messaging is enabled; with messaging
\* disabled the changelog is unchanged by every sequence of operations, and
\* an appended event is never altered or removed by later operations.
C27_OneEventPerNotifiedModify ==
  [][/\ ~config.messaging => changelog' = <<>>
     /\ Len(changelog') >= Len(changelog)
     /\ SubSeq(changelog', 1, Len(changelog)) = changelog
     /\ Committed("modify")
          => LET r == last'.uid
                 add_trp == Payload(r, last'.given)
             IN /\ store'[r] = {t \in store[r] : t[2] # DC_TITLE} \cup add_trp
                /\ Len(Appended) =
                     (IF last'.flag /\ config.messaging THEN 1 ELSE 0)
                /\ \A i \in 1..Len(Appended) :
                     /\ Appended[i].ev_type = RES_UPDATED
                     /\ Appended[i].add = add_trp
                     /\ Appended[i].remove = {<<Uri(r), DC_TITLE, None>>}
                     /\ EX_TYPE \in Appended[i].rsrc_type
     /\ (Committed("create_or_replace") /\ config.messaging)
          => Len(Appended) >= 1]_vars
\* C27 witness: with messaging enabled, a notified raw modify of the stored
\* /a follows another notified operation; the changelog holds both events.
C27_Witness ==
  /\ config.messaging
  /\ last.op = "modify" /\ last.err = "" /\ last.flag /\ last.uid = <<"a">>
  /\ last.found.state = "live"
  /\ clock = 2 /\ Len(changelog) >= 2
  /\ changelog[Len(changelog)].add = Payload(<<"a">>, "typed")

\* C28: when bury is called with inbound true, every resource that links
\* to the buried resource gets a new version snapshot that holds the link
\* before the link is stripped; afterwards no live resource holds a triple
\* whose object is the buried URI, and the delta bury hands to modify for
\* the buried resource itself is the tombstone delta: it removes nothing
\* but the ldp:Resource type and adds the tombstone type and the burial
\* timestamp.
C28_InboundLinksSnapshotted ==
  [][(Committed("bury") /\ last'.flag)
       => LET r == last'.uid
              referrers == {u \in UIDS \ {r} :
                              \E t \in store[u] : t[3] = Uri(r)}
          IN /\ \A u \in referrers :
                  \E l \in Snapshots(store', u) \ Snapshots(store, u) :
                    \A t \in store[u] :
                      t[3] = Uri(r)
                        => <<Uri(VersUid(u, l)), t[2], t[3]>>
                             \in store'[VersUid(u, l)]
             /\ \A u \in UIDS \ {r} :
                  (Live(store', u) /\ ~Tombstoned(store', u))
                    => \A t \in store'[u] : t[3] # Uri(r)
             /\ config.messaging
                  => \E i \in 1..Len(Appended) :
                       /\ Appended[i].uid = r
                       /\ Appended[i].ev_type = RES_DELETED
                       /\ \A t \in Appended[i].remove :
                            t[2] = RDF_TYPE /\ t[3] = LDP_RESOURCE
                       /\ Appended[i].add
                            = {<<Uri(r), RDF_TYPE, TOMBSTONE_TYPE>>,
                               <<Uri(r), BURIED, TS(clock')>>}]_vars

\* The store as the failed create_or_replace request of the state left it
\* when it raised: the writes it had issued, before the transaction was
\* abandoned.
IssuedByFailed ==
  LET inst == from_provided(store, last.uid, FALSE,
                            Payload(last.uid, last.given), last.handling)
  IN {create_or_replace(Ctx(store, changelog), last.uid, inst.cls, inst.imr,
                        last.flag, cr, cb, clock + 1).st :
        cr \in StoredValues(last.uid, CREATED),
        cb \in StoredValues(last.uid, CREATED_BY)}

C30_SnapshotsImmutable ==
  [][last'.op \in {"create_or_replace", "create_version", "revert_to_version",
                   "bury", "resurrect"}
       => \A u \in UIDS : \A l \in Snapshots(store, u) :
            store'[VersUid(u, l)] = store[VersUid(u, l)]]_vars

\* C31: new_container(u) fails with InvalidResource when u does not start
\* with a slash or is the root UID, with ResourceExists when u is a
\* well-formed UID under which a resource is stored, and otherwise returns
\* a container with an empty payload; in each case the store and the
\* changelog are left as they were.
C31_NewContainerChecksOnly ==
  [][last'.op = "new_container"
       => LET s == last'.arg
              malformed == s = <<>> \/ s[1] # "/" \/ s = Str(ROOT_UID)
              stored == \E uid \in UIDS : Str(uid) = s /\ Live(store, uid)
          IN /\ malformed => last'.err = "InvalidResource"
             /\ (~malformed /\ stored) => last'.err = "ResourceExists"
             /\ (~malformed /\ ~stored)
                  => last'.err = "" /\ last'.result = {}
             /\ store' = store
             /\ changelog' = changelog]_vars

\* new_container has refused the UID of the stored resource /a/a.
C31_Witness ==
  /\ last.op = "new_container"
  /\ last.arg = Str(<<"a", "a">>)
  /\ last.err = "ResourceExists"
  /\ Live(store, <<"a", "a">>)

\* C32: whenever mint_uid(parent, path) returns, no live resource is stored
\* under the UID it returns (root shortcut, accepted candidate and random
\* fallback alike); and it raises instead of returning when the path
\* starts with a slash, when the parent is not stored, and when the parent
\* is not typed ldp:Container.
C32_MintedUidIsFree ==
  [][last'.op = "mint_uid"
       => LET parents == {uid \in UIDS : Str(uid) = last'.arg}
              path == last'.path
          IN /\ last'.err = ""
                  => \A uid \in UIDS :
                       Str(uid) = last'.result => ~Live(store, uid)
             /\ (path # <<>> /\ path[1] = "/") => last'.err # ""
             /\ (\A uid \in parents : store[uid] = {}) => last'.err # ""
             /\ (\E uid \in parents :
                   /\ store[uid] # {}
                   /\ LDP_CONTAINER \notin TypesOf(store[uid], Uri(uid)))
                  => last'.err # ""]_vars

\* mint_uid has returned a random UID under the root because the candidate
\* /a is occupied.
C32_Witness ==
  /\ last.op = "mint_uid"
  /\ last.err = ""
  /\ last.arg = Str(ROOT_UID)
  /\ last.path = <<"a">>
  /\ Live(store, <<"a">>)
  /\ last.result # Str(<<"a">>)

\* C35: the containment relation is irreflexive and acyclic in every
\* reachable state: no resource holds a contains edge or a hasParent triple
\* whose object is the resource itself, and no two resources contain each
\* other.
C35_ContainmentAcyclic ==
  \A u \in UIDS :
    /\ <<Uri(u), LDP_CONTAINS, Uri(u)>> \notin store[u]
    /\ <<Uri(u), HAS_PARENT, Uri(u)>> \notin store[u]
    /\ \A v \in UIDS :
         (Len(v) <= Len(u) /\ <<Uri(u), LDP_CONTAINS, Uri(v)>> \in store[u])
           => v = u

\* C36: in every state reached by create_or_replace, bury and resurrect,
\* the immediate path parent of every Live resource other than the root is
\* Live.  (Live is taken strictly: reported as existing and carrying no
\* tombstone triple.)
C36_ParentOfLiveIsLive ==
  \A u \in UIDS \ {ROOT_UID} :
    (Live(store, u) /\ ~Tombstoned(store, u))
      => (Live(store, Parent(u)) /\ ~Tombstoned(store, Parent(u)))

\* The resources the tombstone pointers of uid reference.
PointerTargets(st, uid) == Values(st[uid], Uri(uid), TOMBSTONE_PTR)

\* Following the pointers of uid for at most n steps ends at self-tombstones,
\* through tombstones only.
RECURSIVE LeadsToSelfTombstone(_, _, _)
LeadsToSelfTombstone(st, uid, n) ==
  \/ <<Uri(uid), RDF_TYPE, TOMBSTONE_TYPE>> \in st[uid]
  \/ /\ n > 0
     /\ PointerTargets(st, uid) # {}
     /\ \A t \in PointerTargets(st, uid) :
          /\ IsFcres(t)
          /\ uri_to_uid(t) \in UIDS
          /\ LeadsToSelfTombstone(st, uri_to_uid(t), n - 1)

\* Lineage is consistent in the store st: the target of every tombstone
\* pointer is a tombstone and the pointers lead to a self-tombstone.
Lineage(st) ==
  \A u \in UIDS :
    PointerTargets(st, u) # {}
      => /\ \A t \in PointerTargets(st, u) :
              IsFcres(t) /\ uri_to_uid(t) \in UIDS
                /\ Tombstoned(st, uri_to_uid(t))
         /\ LeadsToSelfTombstone(st, u, MaxDepth + 1)

\* C37: in every reachable state the target of every tombstone pointer is
\* a tombstone, and following the pointers from a pointer tombstone ends at
\* a self-tombstone: no sequence of bury, resurrect, forget and
\* create_or_replace leaves a pointer to a Live or a nonexistent resource.
C37_PointersLeadToTombstones == Lineage(store)

\* C38: a Tombstoned resource becomes Live only through resurrect: a
\* create_or_replace called on a Tombstoned UID, or on a new child of one
\* (which would synthesize it as the parent), writes nothing to the
\* tombstone: the call raises and the tombstone stays Tombstoned with the
\* triples it had, so the call produces no resource that is Live and
\* carries tombstone triples.
C38_NoLiveTombstoneByCreate ==
  [][last'.op = "create_or_replace"
       => \A u \in UIDS :
            Tombstoned(store, u)
              => /\ Tombstoned(store', u)
                 /\ store'[u] = store[u]
                 /\ (u = last'.uid \/ u = Parent(last'.uid))
                      => last'.err # ""]_vars

\* A create-only create_or_replace has been called on the Tombstoned /a
\* under the Live root, and has raised.
C38_Witness ==
  /\ last.op = "create_or_replace"
  /\ last.uid = <<"a">>
  /\ last.flag
  /\ last.found.state = "tombstone"
  /\ last.err = "Tombstone"
  /\ Tombstoned(store, <<"a">>)
  /\ ~Tombstoned(store, ROOT_UID)

\* C39: with messaging enabled, the events one create_or_replace appends
\* are in top-down order: every Created event of a resource is preceded, in
\* the same request, by the Updated event of its parent that carries the
\* contains edge to it, and also by the parent's Created event when the
\* parent did not exist before the request (it was synthesized); and every
\* resource the request creates has exactly one Created event.
C39_ChangelogTopDown ==
  [][(Committed("create_or_replace") /\ config.messaging)
       => /\ \A i \in DOMAIN Appended :
               Appended[i].ev_type = RES_CREATED
                 => LET r == Appended[i].uid
                    IN /\ \E j \in 1..(i - 1) :
                            /\ Appended[j].uid = Parent(r)
                            /\ Appended[j].ev_type = RES_UPDATED
                            /\ contains_edge(Parent(r), r) \subseteq Appended[j].add
                       /\ ~ask_rsrc_exists(store, Parent(r))
                            => \E k \in 1..(i - 1) :
                                 /\ Appended[k].uid = Parent(r)
                                 /\ Appended[k].ev_type = RES_CREATED
          /\ \A u \in UIDS :
               ((u = last'.uid /\ last'.flag)
                  \/ (~ask_rsrc_exists(store, u) /\ ask_rsrc_exists(store', u)))
                 => Cardinality({i \in DOMAIN Appended :
                                   /\ Appended[i].uid = u
                                   /\ Appended[i].ev_type = RES_CREATED}) = 1]_vars

\* /a/a has been created in a repository that held the root alone: /a was
\* synthesized, and the request appended four events.
C39_Witness ==
  /\ config.messaging
  /\ last.op = "create_or_replace"
  /\ last.uid = <<"a", "a">>
  /\ last.err = ""
  /\ last.found.state = "absent"
  /\ clock = 1
  /\ Len(changelog) = 4
  /\ changelog[2].uid = <<"a">>
  /\ changelog[2].ev_type = RES_CREATED
  /\ changelog[4].uid = <<"a", "a">>
  /\ changelog[4].ev_type = RES_CREATED

\* C40: bury with inbound false followed by resurrect, on a Live resource
\* whose descendants were all Live, is the identity on stored triples: after
\* the resurrect the resource and each of its descendants hold exactly the
\* triples they held before the burial.
C40_BuryResurrectIdentity ==
  [][(/\ last.op = "bury" /\ last.err = "" /\ ~last.flag
      /\ last.found.state = "live"
      /\ \A d \in get_descendants(last.before, last.uid) :
            Live(last.before, d) /\ ~Tombstoned(last.before, d)
      /\ Committed("resurrect")
      /\ last'.uid = last.uid)
       => \A u \in {last.uid} \cup get_descendants(last.before, last.uid) :
            store'[u] = last.before[u]]_vars

\* /a, holding /a/a, has been buried without cutting the inbound links and
\* then resurrected: the root still contains it and both are Live again.
C40_Witness ==
  /\ last.op = "resurrect"
  /\ last.uid = <<"a">>
  /\ last.err = ""
  /\ last.found.state = "tombstone"
  /\ clock = 2
  /\ ~Tombstoned(store, ROOT_UID)
  /\ contains_edge(ROOT_UID, <<"a">>) \subseteq store[ROOT_UID]
  /\ Live(store, <<"a">>) /\ ~Tombstoned(store, <<"a">>)
  /\ Live(store, <<"a", "a">>) /\ ~Tombstoned(store, <<"a", "a">>)

\* C33: the change events of one operation are handed to _send_event_msg
\* only after the store transaction of the operation has committed, in the
\* order they were enqueued, each exactly once; when the operation raises,
\* none of its events is handed over and the writes of its transaction are
\* rolled back (the store is the one before the request when the request
\* made no commit).
C33_EventsAfterCommit ==
  [][/\ last'.err = ""
          => /\ [i \in 1..Len(Appended) |-> Appended[i].ev] = last'.enqueued
             /\ \A i \in 1..Len(Appended) :
                  Appended[i].commits > Appended[i].ev.epoch
     /\ last'.err # ""
          => /\ Appended = <<>>
             /\ last'.commits = 0 => store' = store]_vars

\* With messaging on, a put of /a under the root, an Indirect Container,
\* has committed and its three events (created, root updated, member added)
\* were handed over in that order.
C33_Witness ==
  /\ config.messaging
  /\ last.op = "put" /\ last.uid = <<"a">> /\ last.err = ""
  /\ Len(last.enqueued) = 3
  /\ last.enqueued[1].ev_type = RES_CREATED
  /\ Len(changelog) >= 3
  /\ \A i \in 1..3 : changelog[Len(changelog) - 3 + i].ev = last.enqueued[i]

\* C34: an operation wrapped by atomic is all-or-nothing also when it calls
\* another wrapped operation: revert_to_version makes one commit, at its
\* end, and none when it fails, so that a revert that fails after its backup
\* create_version leaves the store as it was, without the backup snapshot;
\* and every event the revert enqueued is handed over when it commits.
C34_NestedAllOrNothing ==
  [][last'.op = "revert_to_version"
       => /\ last'.commits = (IF last'.err = "" THEN 1 ELSE 0)
          /\ last'.err # "" => store' = store
          /\ last'.err = ""
               => [i \in 1..Len(Appended) |-> Appended[i].ev] = last'.enqueued]_vars
====
